---- MODULE Spec2Model ----
(***************************************************************************)
(* The pipeline executor of odin (odin/executor.py), with the graph        *)
(* builder (odin/core.py), the layered topological sort (odin/dag.py),     *)
(* the job store and the hash cache (odin/store.py).                       *)
(*                                                                         *)
(* A task is known by its index in the task list; the label of task i in   *)
(* the job store is i and the label of the pipeline record is PipeId.      *)
(* A name is the list of its dot-separated segments, so that a name holds  *)
(* a `.` exactly when it has more than one segment.  A dict is a function  *)
(* whose domain is the set of its keys.                                    *)
(***************************************************************************)
EXTENDS Integers, Sequences, FiniteSets, TLC

\* ------------------------------------------------------------------ bounds
NumTasks == 3      \* length of the task list handed to Executor.run
MaxEdges == 2      \* total number of `depends` entries in a task list
MaxWidth == 2      \* tasks in one layer of the sorted graph
NumFps == 2        \* distinct SHA-1 digests the hash functions can return
MaxFaults == 2     \* failed submissions plus unsuccessful tasks in one run
MaxLen == 6        \* characters in a string handed to rewrite_references
MaxNodes == 3      \* nodes of a graph handed to topo_sort
MaxPods == 3       \* pods of the workload of a task
MaxPolls == 2      \* turns of the loop of wait_for
MaxCalls == 4      \* calls of a store
NumDefs == 3       \* length of a task list handed to create_graph
MaxValues == 2     \* string values in the fields of a task list

\* --------------------------------------------------------------- constants
PipeId == 0                      \* my_id, the label of the pipeline record
Ghost == <<0>>                   \* a name that no task of the list carries
BUILDING == "BUILDING"
RUNNING == "RUNNING"
TERMINATED == "TERMINATED"
DONE == "DONE"
CACHED == "Cached"
SUCCEEDED == "SUCCEEDED"
FAILED == "FAILED"
MISSING == "MISSING"
StatusType == {RUNNING, FAILED, SUCCEEDED, MISSING}

Fps == 1..NumFps                 \* hash_inputs and hash_outputs return one
NoHash == 0                      \* None: the cache has no entry / unset

\* ------------------------------------------------------- the task lists
TaskName(i) == <<i>>
DottedName(i) == <<i, 0>>
DepNames == {TaskName(j) : j \in 1..NumTasks} \cup {Ghost}

\* the sets of at most k elements of S
RECURSIVE SubsetsUpTo(_, _)
SubsetsUpTo(S, k) ==
    IF k = 0 THEN {{}}
    ELSE LET smaller == SubsetsUpTo(S, k - 1)
         IN  smaller \cup {T \cup {e} : T \in smaller, e \in S}

\* An argument that refers to the record of the task called `name`: the whole
\* argument is the reference (`^name.resource_id`) or the reference stands in
\* braces inside other text (`x-{^name.resource_id}`).
Reference(form, name) == [form |-> form, body |-> name]

Forms == {"whole", "embedded"}

\* the places of a reference: <<task, field, form, name>>
RefPlaces == (1..NumTasks) \X {"args", "inputs"} \X Forms \X DepNames

RefsOf(refs, i, field) ==
    {Reference(r[3], r[4]) : r \in {x \in refs : x[1] = i /\ x[2] = field}}

\* A task list: the tasks of `dotted` carry a dot in their name, `deps` holds
\* the pairs <<task, name it depends on>>, `refs` the places of the
\* references, the tasks of `outs` declare outputs.
TaskList(dotted, deps, refs, outs) ==
    [i \in 1..NumTasks |->
        [name |-> IF i \in dotted THEN DottedName(i) ELSE TaskName(i),
         depends |-> {e[2] : e \in {x \in deps : x[1] = i}},
         args |-> RefsOf(refs, i, "args"),
         inputs |-> RefsOf(refs, i, "inputs"),
         outputs |-> i \in outs]]

\* ---------------------------------------------------- odin/core.py, dag.py
HasDot(name) == Len(name) > 1

HasName(ts, n) == \E i \in 1..Len(ts) : ts[i].name = n

\* name2idx: a later task of the same name replaces an earlier one
name2idx(ts, n) == CHOOSE i \in 1..Len(ts) :
    /\ ts[i].name = n
    /\ \A j \in 1..Len(ts) : ts[j].name = n => j <= i

NoError == [kind |-> "none", about |-> <<>>, node |-> <<>>]

Min(S) == CHOOSE x \in S : \A y \in S : x <= y

\* The ValueError create_graph raises, or NoError.
\* is_reference holds of the values of a task that start with `^`
is_reference(a) == a.form = "whole"

\* the names the values of a task refer to (parse_reference(value)[0])
Referred(task) == {a.body : a \in {x \in task.args \cup task.inputs : is_reference(x)}}

create_graph_error(ts) ==
    LET dotted == {i \in 1..Len(ts) : HasDot(ts[i].name)}
        lost(i) == {d \in ts[i].depends : ~HasName(ts, d)}
        stray(i) == {d \in Referred(ts[i]) : ~HasName(ts, d)}
        phantom == {i \in 1..Len(ts) : lost(i) \cup stray(i) # {}}
    IN  IF dotted # {}
        THEN [kind |-> "dot", about |-> ts[Min(dotted)].name, node |-> <<>>]
        ELSE IF phantom # {}
        THEN LET dst == Min(phantom)
             IN  [kind |-> "dependency",
                  about |-> IF lost(dst) # {} THEN CHOOSE d \in lost(dst) : TRUE
                            ELSE CHOOSE d \in stray(dst) : TRUE,
                  node |-> ts[dst].name]
        ELSE NoError

\* graph[src] is the set of tasks that depend on src
create_graph(ts) ==
    [src \in 1..Len(ts) |->
        {dst \in 1..Len(ts) :
            \E d \in ts[dst].depends \cup Referred(ts[dst]) :
                HasName(ts, d) /\ name2idx(ts, d) = src}]

\* the keys of the graph and the nodes its edges lead to
Nodes(froms) == DOMAIN froms \cup UNION {froms[nd] : nd \in DOMAIN froms}

\* the edges are taken as they are, not reversed
rev_graph_Same(froms) == froms

rev_graph(froms) ==
    [nd \in Nodes(froms) |-> {src \in DOMAIN froms : nd \in froms[src]}]

\* one node without predecessors is taken at a time
NoIns_One(tos) ==
    LET free == {n \in DOMAIN tos : tos[n] = {}}
    IN  IF free = {} THEN {} ELSE {Min(free)}

NoIns(tos) == {n \in DOMAIN tos : tos[n] = {}}

RECURSIVE topo_layers(_)
topo_layers(tos) ==
    LET no_ins == NoIns(tos)
    IN  IF no_ins = {} THEN <<>>
        ELSE <<no_ins>> \o
             topo_layers([n \in DOMAIN tos \ no_ins |-> tos[n] \ no_ins])

RECURSIVE Flatten(_)
Flatten(ss) == IF ss = <<>> THEN <<>> ELSE Head(ss) \o Flatten(Tail(ss))

RECURSIVE UnionAll(_)
UnionAll(ss) == IF ss = <<>> THEN {} ELSE Head(ss) \cup UnionAll(Tail(ss))

\* the nodes that are left are not looked at
HasCycle_Never(tos) == FALSE

\* CycleError: nodes are left when no node without predecessors remains
HasCycle(tos) == UnionAll(topo_layers(tos)) # DOMAIN tos

topo_sort_parallel(froms) == topo_layers(rev_graph(froms))

CycleErr == [kind |-> "cycle", about |-> <<>>, node |-> <<>>]

\* a cycle goes unnoticed
dag_error_NoCycle(ts) == create_graph_error(ts)

\* What the try block of Executor.run ends with: an error or NoError
dag_error(ts) ==
    IF create_graph_error(ts) # NoError THEN create_graph_error(ts)
    ELSE IF HasCycle(rev_graph(create_graph(ts))) THEN CycleErr
    ELSE NoError

Width(ts) ==
    LET layers == topo_sort_parallel(create_graph(ts))
    IN  IF dag_error(ts) # NoError \/ layers = <<>> THEN 0
        ELSE CHOOSE w \in 1..Len(ts) :
                /\ \E i \in 1..Len(layers) : Cardinality(layers[i]) = w
                /\ \A i \in 1..Len(layers) : Cardinality(layers[i]) <= w

\* The task lists the model runs: NumTasks tasks with distinct names, at
\* most MaxEdges dependencies and no layer wider than MaxWidth.
TaskLists ==
    {ts \in {TaskList(dotted, deps, {}, outs) :
                dotted \in SUBSET (1..NumTasks),
                deps \in SubsetsUpTo((1..NumTasks) \X DepNames, MaxEdges),
                outs \in SUBSET (1..NumTasks)} :
        Width(ts) <= MaxWidth}

\* The task lists with one reference in the args or the inputs of a task:
\* undotted names, the reference and the `depends` entries together at most
\* MaxEdges, no layer wider than MaxWidth.
RefTaskLists ==
    {ts \in {TaskList({}, deps, {ref}, outs) :
                deps \in SubsetsUpTo((1..NumTasks) \X DepNames, MaxEdges - 1),
                ref \in RefPlaces,
                outs \in SUBSET (1..NumTasks)} :
        Width(ts) <= MaxWidth}

\* Iteration order of a set of small integers
RECURSIVE Ordered(_)
Ordered(S) == IF S = {} THEN <<>> ELSE <<Min(S)>> \o Ordered(S \ {Min(S)})

Elems(seq) == {seq[i] : i \in 1..Len(seq)}

\* list.remove: drop the first occurrence
RECURSIVE Remove(_, _)
Remove(seq, x) ==
    IF seq = <<>> THEN <<>>
    ELSE IF Head(seq) = x THEN Tail(seq)
    ELSE <<Head(seq)>> \o Remove(Tail(seq), x)

\* ------------------------------------------ references inside a string
\* a string is a sequence of characters
Chars == {"{", "}", "^", ".", "a", "b"}

Strings(n) == UNION {[1..k -> Chars] : k \in 0..n}

\* what a lookup or a rewrite gives: a str, None, a dict, or an exception
Str(s) == [kind |-> "str", val |-> s]

NoneValue == [kind |-> "None", val |-> <<>>]

Dict(d) == [kind |-> "dict", val |-> d]

Raised(e) == [kind |-> "raised", val |-> <<e>>]

IsStr(v) == v.kind = "str"

\* x == y of Python on two such values
Equal(x, y) == x.kind = y.kind /\ x.val = y.val

\* is_reference on a str
is_reference_str(key) == Len(key) > 0 /\ key[1] = "^"

\* str.split('.')
RECURSIVE split(_)
split(s) ==
    IF \A i \in 1..Len(s) : s[i] # "."
    THEN <<s>>
    ELSE LET i == Min({j \in 1..Len(s) : s[j] = "."})
         IN  <<SubSeq(s, 1, i - 1)>> \o split(SubSeq(s, i + 1, Len(s)))

\* split on the dots and remove the leading `^` of the first part
parse_reference(ref) ==
    LET parts == split(ref)
    IN  IF is_reference_str(parts[1])
        THEN <<Tail(parts[1])>> \o Tail(parts)
        ELSE parts

\* key in results, for results a str
IsSubstring(key, s) ==
    \E i \in 0..Len(s) : i + Len(key) <= Len(s) /\ SubSeq(s, i + 1, i + Len(key)) = key

\* core.extract_outputs: walk the path; a key that is not there gives None,
\* indexing a str with a str raises
RECURSIVE extract_path(_, _)
extract_path(path, results) ==
    IF path = <<>> THEN results
    ELSE LET key == Head(path)
         IN  IF results.kind = "dict"
             THEN IF key \in DOMAIN results.val
                  THEN extract_path(Tail(path), results.val[key])
                  ELSE NoneValue
             ELSE IF IsSubstring(key, results.val)
                  THEN Raised("TypeError")
                  ELSE NoneValue

\* Executor.extract_outputs: the record of the named task, then the path;
\* MemoryStore.get raises on a label it does not hold
lookup(db, reference) ==
    LET parts == parse_reference(reference)
        task == Head(parts)
    IN  IF task \notin DOMAIN db THEN Raised("KeyError")
        ELSE extract_path(Tail(parts), Dict(db[task]))

\* "".join(new_ref): raises when an element is not a str
RECURSIVE join(_)
join(new_ref) ==
    IF new_ref = <<>> THEN Str(<<>>)
    ELSE IF ~IsStr(Head(new_ref)) THEN Raised("TypeError")
    ELSE LET rest == join(Tail(new_ref))
         IN  IF IsStr(rest) THEN Str(Head(new_ref).val \o rest.val) ELSE rest

\* the joined pieces are returned as they are, a reference or not
rewrite_tail_NoLookup(db, reference, starts, new_ref) ==
    join(IF starts # <<>>
         THEN Append(new_ref, Str(SubSeq(reference, starts[1] - 1, Len(reference))))
         ELSE new_ref)

\* after the loop: the unclosed tail, the join, the whole-string reference
rewrite_tail(db, reference, starts, new_ref) ==
    LET all == IF starts # <<>>
               THEN Append(new_ref, Str(SubSeq(reference, starts[1] - 1, Len(reference))))
               ELSE new_ref
        joined == join(all)
    IN  IF ~IsStr(joined) THEN joined
        ELSE IF is_reference_str(joined.val) THEN lookup(db, joined.val)
        ELSE joined

\* the contents of the span are copied as they were, without the braces
span_piece_Contents(sub, to_sub) == Str(to_sub)

\* what a closed span leaves in new_ref: the braces are added back when the
\* recursive call returned the contents of the span as they were
span_piece(sub, to_sub) ==
    IF Equal(sub, Str(to_sub)) THEN Str(<<"{">> \o to_sub \o <<"}">>) ELSE sub

\* Executor.rewrite_references: the loop over the characters from position i
\* on, with the stack of open braces and the pieces collected so far
RECURSIVE rewrite_loop(_, _, _, _, _)
rewrite_loop(db, reference, i, starts, new_ref) ==
    IF i > Len(reference) THEN rewrite_tail(db, reference, starts, new_ref)
    ELSE LET char == reference[i]
         IN  IF char = "{"
             THEN rewrite_loop(db, reference, i + 1, Append(starts, i + 1), new_ref)
             ELSE IF char = "}"
             THEN IF starts = <<>>
                  THEN rewrite_loop(db, reference, i + 1, starts,
                                    Append(new_ref, Str(<<char>>)))
                  ELSE LET start == starts[Len(starts)]
                           popped == SubSeq(starts, 1, Len(starts) - 1)
                       IN  IF popped = <<>>
                           THEN LET to_sub == SubSeq(reference, start, i - 1)
                                    sub == rewrite_loop(db, to_sub, 1, <<>>, <<>>)
                                    piece == span_piece(sub, to_sub)
                                IN  IF sub.kind = "raised" THEN sub
                                    ELSE rewrite_loop(db, reference, i + 1, popped,
                                                      Append(new_ref, piece))
                           ELSE rewrite_loop(db, reference, i + 1, popped, new_ref)
             ELSE rewrite_loop(db, reference, i + 1, starts,
                               IF starts = <<>> THEN Append(new_ref, Str(<<char>>))
                               ELSE new_ref)

rewrite_references(db, reference) == rewrite_loop(db, reference, 1, <<>>, <<>>)

\* ------------------------------------------------------------------- state
VARIABLES
    tasks,        \* the task list handed to Executor.run
    pc,           \* where Executor.run stands
    store,        \* the job store: label -> record
    cache,        \* the hash cache: input fingerprint -> output fingerprint
    groups,       \* the layers topo_sort_parallel returned
    built,        \* number of task records the construction loop has stored
    waiting,      \* the local list of the layers not yet started
    my_status,    \* the local copy of the pipeline record
    gi,           \* index of the current layer in task_list
    ti,           \* index of the current task in the layer's submit loop
    running,      \* the tasks of the current layer that were submitted
    in_hash,      \* the local in_hash
    out_hash,     \* the local out_hash
    cur,          \* the task whose completion is being processed
    submitted,    \* tasks for which sched.submit(task_obj) was called
    probed,       \* tasks for which a hash probe was submitted
    awaited,      \* tasks whose wait_for has returned
    events,       \* the progress events yielded so far
    fpOf,         \* task -> the input fingerprint hash_inputs gave it
    final,        \* task -> the status sched.status gave at completion
    cacheWriter,  \* cache key -> input fingerprint of the task that wrote it
    faults,       \* failed submissions and unsuccessful tasks so far
    task_objs,    \* task -> the args and inputs of its Task object
    sent,         \* task -> the args and inputs handed to sched.submit
    reads,        \* <<t, u>>: the record of u was read to resolve t
    argument,     \* a string handed to rewrite_references
    records,      \* the task records that call reads: name -> record
    rewritten,    \* what rewrite_references gave for the argument
    again,        \* what rewrite_references gave for that result in turn
    graph,        \* a graph handed to topo_sort and topo_sort_parallel
    kahn,         \* the locals of topo_sort_kahn
    parallel,     \* what topo_sort_parallel gave for the graph
    handler,      \* where handle_request stands with a START request
    connection,   \* the websocket of the client: open or closed
    frames,       \* the frames that reached the client
    relayed,      \* number of events handle_request took from run
    resource_type, \* the resource type of a task that wait_for waits for
    pods,         \* the phases of the pods of its workload
    deleted,      \* the workload was deleted in the cluster
    wait,         \* where wait_for stands and what status gave last
    jobs_db,      \* MemoryStore.db: label -> record
    call,         \* the last call of the store and what it gave
    latest,       \* label -> the record the callers set last
    cleaned,      \* what cleanup did to the pipeline that run has left
    task_defs,    \* a task list handed to create_graph
    external_inputs, \* the names of the external inputs handed to it
    made,         \* what create_graph gave for them
    hashed,       \* the Task object handed to hash_task
    probe,        \* the copy of it that hash_task works on
    workload,     \* the pod of the probe on the cluster
    hashing,      \* where hash_task stands and what it gave
    backend,      \* which store is under the calls
    rows,         \* what the database holds
    memory,       \* the dict of a MemoryStore given the same calls
    answer,       \* what the last call gave, in both
    docs,         \* the task records of a MongoStore
    executor_copy, \* the dict Executor.run holds
    task_copy,    \* the dict the task holds
    written,      \* what the task has set so far
    chore_graph,  \* what create_graph gave for the chores
    conduct,      \* what each chore does when it is called
    chores        \* where run_chores stands

vars == <<tasks, pc, store, cache, groups, built, waiting, my_status, gi, ti,
          running, in_hash, out_hash, cur, submitted, probed, awaited,
          events, fpOf, final, cacheWriter, faults, task_objs, sent, reads,
          argument, records, rewritten, again, graph, kahn, parallel,
          handler, connection, frames, relayed, resource_type, pods,
          deleted, wait, jobs_db, call, latest,
          cleaned,
          task_defs, external_inputs, made,
          hashed, probe, workload, hashing,
          backend, rows, memory, answer,
          docs, executor_copy, task_copy, written,
          chore_graph, conduct, chores>>

\* the variables of a call of rewrite_references on a string
rewrite_vars == <<argument, records, rewritten, again>>

\* the variables of a call of topo_sort and topo_sort_parallel on a graph
dag_vars == <<graph, kahn, parallel>>

\* the variables of handle_request
serve_vars == <<handler, connection, frames, relayed>>

\* the variables of KubernetesTaskManager.wait_for
wait_vars == <<resource_type, pods, deleted, wait>>

\* the variables of a MemoryStore and its callers
store_vars == <<jobs_db, call, latest>>

\* the variables of a call of cleanup on the pipeline
cleanup_vars == <<cleaned>>

\* the variables of a call of create_graph with external inputs
build_vars == <<task_defs, external_inputs, made>>

\* the variables of a call of hash_task on a task
hash_vars == <<hashed, probe, workload, hashing>>

\* the variables of a database store run beside a MemoryStore
backend_vars == <<backend, rows, memory, answer>>

\* the variables of a task writing its record while the executor does
race_vars == <<docs, executor_copy, task_copy, written>>

\* the variables of a call of run_chores
chore_vars == <<chore_graph, conduct, chores>>

\* the variables Executor.run does not touch
pure_vars == <<rewrite_vars, dag_vars, serve_vars, wait_vars, store_vars,
               cleanup_vars, build_vars, hash_vars, backend_vars, race_vars,
               chore_vars>>

Tasks == 1..NumTasks

\* task_list: one list per layer, in the order the construction loop visits
task_list == [i \in 1..Len(groups) |-> Ordered(groups[i])]

task_group == task_list[gi]

\* ---------------------------------------------------------- odin/store.py
\* Store.set: upsert of the record under its label
Set(db, value) == (value.label :> value) @@ db

Exists(db, label) == label \in DOMAIN db

\* dict.get(key, default)
Get(rec, key, default) == IF key \in DOMAIN rec THEN rec[key] ELSE default

\* ------------------------------------------------------- odin/executor.py
Event(msg, t) == [msg |-> msg, task |-> t]

Message(kind, t) == [kind |-> kind, about |-> <<t>>, node |-> <<>>]

\* the record persisted when the graph cannot be built or sorted
ErrorRecord(err) ==
    [label |-> PipeId, status |-> TERMINATED, executed |-> <<>>,
     waiting |-> <<>>, executing |-> <<>>, submit_time |-> TRUE,
     completion_time |-> FALSE, error_message |-> err]

\* the first record of a pipeline whose graph was built
BuildingRecord ==
    [label |-> PipeId, status |-> BUILDING, executed |-> <<>>,
     waiting |-> <<>>, executing |-> <<>>, submit_time |-> TRUE,
     completion_time |-> FALSE, error_message |-> NoError]

\* the args and inputs of a Task object
TaskObj(args, inputs) == [args |-> args, inputs |-> inputs]

NoTask == TaskObj({}, {})

\* Task.from_dict
from_dict(task) == TaskObj(task.args, task.inputs)

\* Executor._task_to_entry
task_to_entry(t, task_obj) ==
    [label |-> t, parent |-> PipeId, name |-> tasks[t].name,
     args |-> task_obj.args, inputs |-> task_obj.inputs,
     outputs |-> tasks[t].outputs]

None == "None"

\* core.extract_outputs for a path of one key
extract_outputs(key, results) == Get(results, key, None)

\* the store has the record that _get_child_name(pipeline_id, name) labels
HasRecord(db, name) == HasName(tasks, name) /\ Exists(db, name2idx(tasks, name))

\* Executor.extract_outputs: the reference reads resource_id
ReadValue(db, a) == extract_outputs("resource_id", db[name2idx(tasks, a.body)])

\* rewrite_references raises: KeyError from store.get when the task has no
\* record, TypeError from "".join when the value spliced in is None
RewriteRaises(db, a) ==
    IF ~HasRecord(db, a.body) THEN TRUE
    ELSE a.form = "embedded" /\ ReadValue(db, a) = None

\* rewrite_references of one argument: the value itself for a whole-argument
\* reference, the text with the value spliced in for an embedded one
rewrite_argument(db, a) ==
    Reference(IF a.form = "whole" THEN "value" ELSE "text", ReadValue(db, a))

\* the task object after its inputs and args were rewritten
Rewritten(db, task_obj) ==
    TaskObj({rewrite_argument(db, a) : a \in task_obj.args},
            {rewrite_argument(db, a) : a \in task_obj.inputs})

\* the records rewrite_references reads for the task object
ReadFor(db, task_obj) ==
    {name2idx(tasks, a.body) :
        a \in {x \in task_obj.args \cup task_obj.inputs : HasRecord(db, x.body)}}

\* the task entry is left as it was stored at construction
ResolvedEntry_Declared(entry, task_obj) == entry

\* the task entry with the args and inputs of the rewritten task object
ResolvedEntry(entry, task_obj) ==
    [entry EXCEPT !.args = task_obj.args, !.inputs = task_obj.inputs]

\* the status is assigned, the waiting list is left as it was read
RunningRecord_StatusOnly(rec, all_tasks) ==
    [status |-> RUNNING, jobs |-> all_tasks] @@ rec

\* my_status after status, waiting and jobs are assigned
RunningRecord(rec, all_tasks) ==
    [status |-> RUNNING, waiting |-> all_tasks, jobs |-> all_tasks] @@ rec

\* the started layer is not taken out of waiting
StartLayer_KeepWaiting(st, group, rest) ==
    [st EXCEPT !.executed = IF st.executing # <<>> THEN @ \o st.executing ELSE @,
               !.executing = group,
               !.waiting = group \o Flatten(rest)]

\* the head of the layer loop
StartLayer(st, group, rest) ==
    [st EXCEPT !.executed = IF st.executing # <<>> THEN @ \o st.executing ELSE @,
               !.executing = group,
               !.waiting = Flatten(rest)]

\* the task is appended to executed but stays in executing
MoveToExecuted_NoRemove(st, t) == [st EXCEPT !.executed = Append(@, t)]

MoveToExecuted(st, t) ==
    [st EXCEPT !.executing = Remove(@, t), !.executed = Append(@, t)]

\* the message is recorded but the status is left as it was
Terminate_NoStatus(st, msg) == [st EXCEPT !.error_message = msg]

Terminate(st, msg) == [st EXCEPT !.status = TERMINATED, !.error_message = msg]

\* any entry under the input fingerprint counts as a hit
CacheHit_AnyEntry(out, prev_hash) == prev_hash # NoHash

CacheHit(out, prev_hash) == out = prev_hash

\* what a completed task does to my_status
Completed(st, t, status, message, early_exit) ==
    IF status # SUCCEEDED THEN Terminate(st, message)
    ELSE MoveToExecuted(IF early_exit THEN [st EXCEPT !.status = DONE] ELSE st, t)

\* the loop over as_completed is left after the first completion
Drained_First(submitted_now, awaited_now) ==
    submitted_now = {} \/ submitted_now \cap awaited_now # {}

\* the loop over as_completed has handed out every submitted task
Drained(submitted_now, awaited_now) == submitted_now \subseteq awaited_now

StopScheduling(st) == st.status = DONE \/ st.status = TERMINATED

\* the tail of run, after the layer loop
Finish(st) ==
    LET moved == IF st.executing # <<>> /\ st.status # TERMINATED
                 THEN [st EXCEPT !.executed = @ \o st.executing, !.executing = <<>>]
                 ELSE st
    IN  [moved EXCEPT !.completion_time = TRUE,
                      !.status = IF @ # TERMINATED THEN DONE ELSE @]

\* the state in which run is entered, whatever the task list
Start ==
    /\ pc = "start"
    /\ store = <<>>
    /\ cache = [k \in Fps |-> NoHash]
    /\ groups = <<>>
    /\ built = 0
    /\ waiting = <<>>
    /\ my_status = [label |-> PipeId]
    /\ gi = 0
    /\ ti = 0
    /\ running = <<>>
    /\ in_hash = NoHash
    /\ out_hash = NoHash
    /\ cur = 0
    /\ submitted = {}
    /\ probed = {}
    /\ awaited = {}
    /\ events = <<>>
    /\ fpOf = [t \in Tasks |-> NoHash]
    /\ final = [t \in Tasks |-> "none"]
    /\ cacheWriter = [k \in Fps |-> NoHash]
    /\ faults = 0
    /\ task_objs = [t \in Tasks |-> NoTask]
    /\ sent = [t \in Tasks |-> NoTask]
    /\ reads = {}

\* rewrite_references was not called on a string of its own
NotCalled == [kind |-> "not called", val |-> <<>>]

NoArgument ==
    /\ argument = <<>>
    /\ records = <<>>
    /\ rewritten = NotCalled
    /\ again = NotCalled

KahnIdle ==
    [state |-> "not called", froms |-> <<>>, tos |-> <<>>, no_ins |-> {},
     sort |-> <<>>]

\* topo_sort and topo_sort_parallel were not called on a graph of their own
NoGraph ==
    /\ graph = <<>>
    /\ kahn = KahnIdle
    /\ parallel = [kind |-> "not called", val |-> <<>>]

\* run is called directly, not by handle_request
NoRequest ==
    /\ handler = "not called"
    /\ connection = "open"
    /\ frames = <<>>
    /\ relayed = 0

\* wait_for was not called on a workload of its own
WaitIdle == [state |-> "not called", status |-> "none", polls |-> 0]

NoWorkload ==
    /\ resource_type = "none"
    /\ pods = <<>>
    /\ deleted = FALSE
    /\ wait = WaitIdle

NoCall == [op |-> "none", arg |-> <<>>, result |-> <<>>, seq |-> 0]

\* no MemoryStore of its own was made
NoStore ==
    /\ jobs_db = <<>>
    /\ call = NoCall
    /\ latest = <<>>

NotCleaned == [state |-> "not called", killed |-> {}, purged |-> {}]

\* cleanup was not called
NoCleanup == cleaned = NotCleaned

NotMade == [kind |-> "not called", val |-> <<>>]

\* create_graph was not called on a task list of its own
NoBuild ==
    /\ task_defs = <<>>
    /\ external_inputs = {}
    /\ made = NotMade

NoObject == [name |-> <<>>]

NoPod == [state |-> "none", spec |-> NoObject, phase |-> "none"]

HashIdle == [state |-> "not called", polls |-> 0, seen |-> "none", result |-> <<>>]

\* hash_task was not called on a task of its own
NoHashing ==
    /\ hashed = NoObject
    /\ probe = NoObject
    /\ workload = NoPod
    /\ hashing = HashIdle

NoAnswer == [op |-> "none", given |-> <<>>, expected |-> <<>>, seq |-> 0]

\* no database store was made
NoBackend ==
    /\ backend = "none"
    /\ rows = <<>>
    /\ memory = <<>>
    /\ answer = NoAnswer

NoCopy == [at |-> "none", val |-> <<>>]

\* no task was put to write beside the executor
NoRace ==
    /\ docs = <<>>
    /\ executor_copy = NoCopy
    /\ task_copy = NoCopy
    /\ written = <<>>

ChoresIdle ==
    [state |-> "not called", order |-> <<>>, at |-> 0, to_skip |-> {},
     results |-> <<>>, ran |-> <<>>]

\* run_chores was not called
NoChores ==
    /\ chore_graph = <<>>
    /\ conduct = <<>>
    /\ chores = ChoresIdle

\* only Executor.run is called
RunOnly == NoArgument /\ NoGraph /\ NoRequest /\ NoWorkload /\ NoStore
    /\ NoCleanup /\ NoBuild /\ NoHashing /\ NoBackend /\ NoRace /\ NoChores

Init == tasks \in TaskLists /\ Start /\ RunOnly

InitRefs == tasks \in RefTaskLists /\ Start /\ RunOnly

\* create_graph or topo_sort_parallel raises: persist, yield, re-raise
BuildFails ==
    /\ pc = "start"
    /\ dag_error(tasks) # NoError
    /\ store' = Set(store, ErrorRecord(dag_error(tasks)))
    /\ events' = Append(events, Event("Pipeline terminated", 0))
    /\ pc' = "raised"
    /\ UNCHANGED <<tasks, cache, groups, built, waiting, my_status, gi, ti,
                   running, in_hash, out_hash, cur, submitted, probed, awaited, fpOf,
                   final, cacheWriter, faults>>
    /\ UNCHANGED <<task_objs, sent, reads>>
    /\ UNCHANGED pure_vars

\* the graph is built and sorted: persist the first record
BuildSucceeds ==
    /\ pc = "start"
    /\ dag_error(tasks) = NoError
    /\ groups' = topo_sort_parallel(create_graph(tasks))
    /\ store' = Set(store, BuildingRecord)
    /\ pc' = "build"
    /\ UNCHANGED <<tasks, cache, built, waiting, my_status, gi, ti, running,
                   in_hash, out_hash, cur, submitted, probed, awaited, events, fpOf,
                   final, cacheWriter, faults>>
    /\ UNCHANGED <<task_objs, sent, reads>>
    /\ UNCHANGED pure_vars

\* one turn of the construction loop: store the record of the next task
StoreTask ==
    /\ pc = "build"
    /\ built < Len(Flatten(task_list))
    /\ LET t == Flatten(task_list)[built + 1]
       IN  /\ task_objs' = [task_objs EXCEPT ![t] = from_dict(tasks[t])]
           /\ store' = Set(store, task_to_entry(t, task_objs'[t]))
    /\ built' = built + 1
    /\ UNCHANGED <<tasks, pc, cache, groups, waiting, my_status, gi, ti,
                   running, in_hash, out_hash, cur, submitted, probed, awaited, events,
                   fpOf, final, cacheWriter, faults>>
    /\ UNCHANGED <<sent, reads>>
    /\ UNCHANGED pure_vars

\* all task records exist: the pipeline record becomes RUNNING
SetRunning ==
    /\ pc = "build"
    /\ built = Len(Flatten(task_list))
    /\ waiting' = task_list
    /\ my_status' = RunningRecord(store[PipeId], Flatten(task_list))
    /\ store' = Set(store, my_status')
    /\ pc' = "layer"
    /\ UNCHANGED <<tasks, cache, groups, built, gi, ti, running, in_hash, out_hash, cur,
                   submitted, probed, awaited, events, fpOf, final,
                   cacheWriter, faults>>
    /\ UNCHANGED <<task_objs, sent, reads>>
    /\ UNCHANGED pure_vars

\* the head of the loop over task_list
LayerStart ==
    /\ pc = "layer"
    /\ gi < Len(task_list)
    /\ gi' = gi + 1
    /\ waiting' = Tail(waiting)
    /\ my_status' = StartLayer(my_status, task_list[gi + 1], Tail(waiting))
    /\ store' = Set(store, my_status')
    /\ running' = <<>>
    /\ ti' = 1
    /\ pc' = "resolve"
    /\ UNCHANGED <<tasks, cache, groups, built, in_hash, out_hash, cur, submitted,
                   probed, awaited, events, fpOf, final, cacheWriter, faults>>
    /\ UNCHANGED <<task_objs, sent, reads>>
    /\ UNCHANGED pure_vars

\* the loop over task_list is exhausted
LayersDone ==
    /\ pc = "layer"
    /\ gi = Len(task_list)
    /\ pc' = "final"
    /\ UNCHANGED <<tasks, store, cache, groups, built, waiting, my_status, gi,
                   ti, running, in_hash, out_hash, cur, submitted, probed, awaited,
                   events, fpOf, final, cacheWriter, faults>>
    /\ UNCHANGED <<task_objs, sent, reads>>
    /\ UNCHANGED pure_vars

\* the references of the next task are rewritten and its record updated
Resolve ==
    /\ pc = "resolve"
    /\ ti <= Len(task_group)
    /\ LET t == task_group[ti]
       IN  /\ \A a \in task_objs[t].args \cup task_objs[t].inputs :
                 ~RewriteRaises(store, a)
           /\ task_objs' = [task_objs EXCEPT ![t] = Rewritten(store, @)]
           /\ reads' = reads \cup {<<t, u>> : u \in ReadFor(store, task_objs[t])}
           /\ store' = Set(store, ResolvedEntry(store[t], task_objs'[t]))
           /\ pc' = IF tasks[t].outputs THEN "hash" ELSE "submit"
    /\ UNCHANGED <<tasks, cache, groups, built, waiting, my_status, gi, ti,
                   running, in_hash, out_hash, cur, submitted, probed, awaited, events,
                   fpOf, final, cacheWriter, faults>>
    /\ UNCHANGED <<sent>>
    /\ UNCHANGED pure_vars

\* rewrite_references raises: the exception leaves run, nothing is persisted
ResolveRaises ==
    /\ pc = "resolve"
    /\ ti <= Len(task_group)
    /\ LET t == task_group[ti]
       IN  /\ \E a \in task_objs[t].args \cup task_objs[t].inputs :
                 RewriteRaises(store, a)
           /\ reads' = reads \cup {<<t, u>> : u \in ReadFor(store, task_objs[t])}
    /\ pc' = "crashed"
    /\ UNCHANGED <<tasks, store, cache, groups, built, waiting, my_status, gi,
                   ti, running, in_hash, out_hash, cur, submitted, probed, awaited,
                   events, fpOf, final, cacheWriter, faults, task_objs, sent>>
    /\ UNCHANGED pure_vars

\* the submit loop of the layer is over
SubmitLoopDone ==
    /\ pc = "resolve"
    /\ ti > Len(task_group)
    /\ pc' = "await"
    /\ UNCHANGED <<tasks, store, cache, groups, built, waiting, my_status, gi,
                   ti, running, in_hash, out_hash, cur, submitted, probed, awaited,
                   events, fpOf, final, cacheWriter, faults>>
    /\ UNCHANGED <<task_objs, sent, reads>>
    /\ UNCHANGED pure_vars

\* hash_inputs raises SubmitError: the probe could not be submitted
HashFails ==
    /\ pc = "hash"
    /\ faults < MaxFaults
    /\ LET t == task_group[ti]
       IN  /\ probed' = probed \cup {t}
           /\ my_status' = Terminate(my_status, Message("submit", t))
    /\ store' = Set(store, my_status')
    /\ events' = Append(events, Event("Pipeline terminated", 0))
    /\ faults' = faults + 1
    /\ pc' = "raised"
    /\ UNCHANGED <<tasks, cache, groups, built, waiting, gi, ti, running,
                   in_hash, out_hash, cur, submitted, awaited, fpOf, final, cacheWriter>>
    /\ UNCHANGED <<task_objs, sent, reads>>
    /\ UNCHANGED pure_vars

\* the fingerprints are computed and the cache is asked
HashLookup(fp, out) ==
    /\ pc = "hash"
    /\ LET t == task_group[ti]
           prev_hash == cache[fp]
       IN  /\ probed' = probed \cup {t}
           /\ in_hash' = fp
           /\ out_hash' = out
           /\ fpOf' = [fpOf EXCEPT ![t] = fp]
           /\ IF CacheHit(out, prev_hash)
              THEN /\ my_status' = MoveToExecuted(my_status, t)
                   /\ store' = Set(Set(store, [resource_id |-> CACHED] @@ store[t]),
                                   my_status')
                   /\ ti' = ti + 1
                   /\ pc' = "resolve"
              ELSE /\ pc' = "submit"
                   /\ UNCHANGED <<my_status, store, ti>>
    /\ UNCHANGED <<tasks, cache, groups, built, waiting, gi, running, cur,
                   submitted, awaited, events, final, cacheWriter, faults>>
    /\ UNCHANGED <<task_objs, sent, reads>>
    /\ UNCHANGED pure_vars

\* sched.submit raises SubmitError
SubmitFails ==
    /\ pc = "submit"
    /\ faults < MaxFaults
    /\ LET t == task_group[ti]
       IN  /\ submitted' = submitted \cup {t}
           /\ sent' = [sent EXCEPT ![t] = task_objs[t]]
           /\ events' = events \o <<Event("Submitting", t),
                                     Event("Pipeline terminated", 0)>>
           /\ my_status' = Terminate(my_status, Message("submit", t))
    /\ store' = Set(store, my_status')
    /\ faults' = faults + 1
    /\ pc' = "raised"
    /\ UNCHANGED <<tasks, cache, groups, built, waiting, gi, ti, running,
                   in_hash, out_hash, cur, probed, awaited, fpOf, final, cacheWriter>>
    /\ UNCHANGED <<task_objs, reads>>
    /\ UNCHANGED pure_vars

\* sched.submit returns a resource id
SubmitSucceeds ==
    /\ pc = "submit"
    /\ LET t == task_group[ti]
       IN  /\ submitted' = submitted \cup {t}
           /\ sent' = [sent EXCEPT ![t] = task_objs[t]]
           /\ events' = Append(events, Event("Submitting", t))
           /\ store' = Set(store, [resource_id |-> "resource",
                                   submit_time |-> TRUE] @@ store[t])
           /\ running' = Append(running, t)
    /\ ti' = ti + 1
    /\ pc' = "resolve"
    /\ UNCHANGED <<tasks, cache, groups, built, waiting, my_status, gi,
                   in_hash, out_hash, cur, probed, awaited, fpOf, final, cacheWriter,
                   faults>>
    /\ UNCHANGED <<task_objs, reads>>
    /\ UNCHANGED pure_vars

\* a running task writes request_early_exit into its own record
TaskRequestsEarlyExit(t) ==
    /\ t \in Elems(running) \ awaited
    /\ pc \in {"resolve", "hash", "submit", "await"}
    /\ ~Get(store[t], "request_early_exit", FALSE)
    /\ store' = Set(store, [request_early_exit |-> TRUE] @@ store[t])
    /\ UNCHANGED <<tasks, pc, cache, groups, built, waiting, my_status, gi, ti,
                   running, in_hash, out_hash, cur, submitted, probed, awaited, events,
                   fpOf, final, cacheWriter, faults>>
    /\ UNCHANGED <<task_objs, sent, reads>>
    /\ UNCHANGED pure_vars

\* the output hash is saved whatever the final status of the task is
SavesHash_AnyStatus(t, status) == tasks[t].outputs

\* the completion of t goes on to save the hash of its outputs
SavesHash(t, status) == status = SUCCEEDED /\ tasks[t].outputs

\* wait_for of task t returns next; status is what sched.status then reports
Complete(t, status, no_message) ==
    /\ pc = "await"
    /\ t \in Elems(running) \ awaited
    /\ status # SUCCEEDED => faults < MaxFaults
    /\ status # FAILED => ~no_message
    /\ awaited' = awaited \cup {t}
    /\ final' = [final EXCEPT ![t] = status]
    /\ events' = Append(events, Event("Done running", t))
    /\ LET task_status == [completion_time |-> TRUE] @@ store[t]
           message == IF no_message THEN Message("default", t)
                      ELSE Message("handler", t)
           early_exit == Get(task_status, "request_early_exit", FALSE)
       IN  /\ my_status' = Completed(my_status, t, status, message, early_exit)
           /\ store' = Set(Set(store, task_status), my_status')
    /\ faults' = IF status # SUCCEEDED THEN faults + 1 ELSE faults
    /\ IF SavesHash(t, status)
       THEN pc' = "cache" /\ cur' = t
       ELSE pc' = "await" /\ cur' = cur
    /\ UNCHANGED <<tasks, cache, groups, built, waiting, gi, ti, running,
                   in_hash, out_hash, submitted, probed, fpOf, cacheWriter>>
    /\ UNCHANGED <<task_objs, sent, reads>>
    /\ UNCHANGED pure_vars

\* the key under which a completed task saves its output fingerprint
SaveKey(t) == in_hash

\* the output fingerprint of the completed task is saved in the cache
CacheWrite(out) ==
    /\ pc = "cache"
    /\ cache' = [cache EXCEPT ![SaveKey(cur)] = out]
    /\ cacheWriter' = [cacheWriter EXCEPT ![SaveKey(cur)] = fpOf[cur]]
    /\ pc' = "await"
    /\ UNCHANGED <<tasks, store, groups, built, waiting, my_status, gi, ti,
                   running, in_hash, out_hash, cur, submitted, probed, awaited, events,
                   fpOf, final, faults>>
    /\ UNCHANGED <<task_objs, sent, reads>>
    /\ UNCHANGED pure_vars

\* the write of the cache entry raises: the exception leaves run, nothing
\* is persisted
CacheWriteRaises ==
    /\ pc = "cache"
    /\ pc' = "crashed"
    /\ UNCHANGED <<tasks, store, cache, groups, built, waiting, my_status, gi,
                   ti, running, in_hash, out_hash, cur, submitted, probed, awaited,
                   events, fpOf, final, cacheWriter, faults>>
    /\ UNCHANGED <<task_objs, sent, reads>>
    /\ UNCHANGED pure_vars

\* every submitted task of the layer was awaited and the pipeline goes on
LayerContinues ==
    /\ pc = "await"
    /\ Drained(Elems(running), awaited)
    /\ ~StopScheduling(my_status)
    /\ pc' = "layer"
    /\ UNCHANGED <<tasks, store, cache, groups, built, waiting, my_status, gi,
                   ti, running, in_hash, out_hash, cur, submitted, probed, awaited,
                   events, fpOf, final, cacheWriter, faults>>
    /\ UNCHANGED <<task_objs, sent, reads>>
    /\ UNCHANGED pure_vars

\* the pipeline that stops is announced, DONE or TERMINATED
Announced_AnyStatus(st, yielded) ==
    Append(yielded, Event("Pipeline: Terminated", 0))

\* the events after the check that follows the completions of a layer: the
\* pipeline that stops TERMINATED is announced
Announced(st, yielded) ==
    IF st.status = TERMINATED
    THEN Append(yielded, Event("Pipeline: Terminated", 0))
    ELSE yielded

\* every submitted task of the layer was awaited and the loop is left
LayerBreaks ==
    /\ pc = "await"
    /\ Drained(Elems(running), awaited)
    /\ StopScheduling(my_status)
    /\ events' = Announced(my_status, events)
    /\ waiting' = <<>>
    /\ pc' = "final"
    /\ UNCHANGED <<tasks, store, cache, groups, built, my_status, gi, ti,
                   running, in_hash, out_hash, cur, submitted, probed, awaited, fpOf,
                   final, cacheWriter, faults>>
    /\ UNCHANGED <<task_objs, sent, reads>>
    /\ UNCHANGED pure_vars

\* the tail of run: the last write of the pipeline record
Finalize ==
    /\ pc = "final"
    /\ waiting = <<>>
    /\ my_status' = Finish(my_status)
    /\ store' = Set(store, my_status')
    /\ pc' = "done"
    /\ UNCHANGED <<tasks, cache, groups, built, waiting, gi, ti, running,
                   in_hash, out_hash, cur, submitted, probed, awaited, events, fpOf,
                   final, cacheWriter, faults>>
    /\ UNCHANGED <<task_objs, sent, reads>>
    /\ UNCHANGED pure_vars
Next ==
    \/ BuildFails
    \/ BuildSucceeds
    \/ StoreTask
    \/ SetRunning
    \/ LayerStart
    \/ LayersDone
    \/ Resolve
    \/ SubmitLoopDone
    \/ HashFails
    \/ \E fp \in Fps, out \in Fps : HashLookup(fp, out)
    \/ SubmitFails
    \/ SubmitSucceeds
    \/ \E t \in Tasks : TaskRequestsEarlyExit(t)
    \/ \E t \in Tasks, status \in StatusType \ {RUNNING}, no_message \in BOOLEAN :
          Complete(t, status, no_message)
    \/ \E out \in Fps : CacheWrite(out)
    \/ LayerContinues
    \/ LayerBreaks
    \/ Finalize

Spec == Init /\ [][Next]_vars

\* run on the task lists that hold a reference
NextRefs == Next \/ ResolveRaises

SpecRefs == InitRefs /\ [][NextRefs]_vars

\* run with a cache whose writes may fail
NextFaults == Next \/ CacheWriteRaises

SpecFaults == Init /\ [][NextFaults]_vars

\* ------------------------------- rewrite_references called on a string
\* records whose values are plain text
PlainRecords ==
    (<<"a">> :> ((<<"a">> :> Str(<<"b">>))
                 @@ (<<"b">> :> Dict(<<"a">> :> Str(<<"a", "b">>)))))
    @@ (<<"b">> :> (<<"a">> :> Str(<<"a">>)))

\* records with values that read as references themselves
ReferenceRecords ==
    (<<"a">> :> ((<<"a">> :> Str(<<"^", "b", ".", "a">>))
                 @@ (<<"b">> :> Str(<<"^", "a", ".", "b">>))))
    @@ (<<"b">> :> ((<<"a">> :> Str(<<"a">>))
                    @@ (<<"b">> :> Str(<<"{", "^", "b", ".", "a", "}">>))))

RecordStores == {PlainRecords, ReferenceRecords}

\* arguments longer than MaxLen: nested, repeated and mixed spans
Examples ==
    { <<"{", "^", "{", "^", "b", ".", "a", "}", ".", "b", ".", "{", "^", "b", ".", "a", "}", "}">>,
      <<"b", "{", "^", "{", "^", "b", ".", "a", "}", ".", "b", ".", "a", "}", "b">>,
      <<"a", "{", "^", "a", ".", "a", "}", "b", "{", "^", "b", ".", "a", "}">>,
      <<"{", "a", "{", "^", "b", ".", "a", "}", "}">>,
      <<"a", "{", "b", "}", "{", "^", "a", ".", "a", "}">>,
      <<"{", "a", "{", "^", "b", ".", "a", "}">>,
      <<"a", "{", "^", "a", ".", "b", ".", "b", "}", "b">>,
      <<"a", "{", "^", "a", ".", "b", "}">>,
      <<"}", "{", "^", "b", ".", "a", "}", "{">> }

Arguments == Strings(MaxLen) \cup Examples

\* the keys of a dict in the order a loop over it gives, one character each
keys(d) == SelectSeq(<<"a", "b">>, LAMBDA c : <<c>> \in DOMAIN d)

\* rewrite_references handed the value an earlier call returned: a str is
\* scanned, a dict is scanned key by key, None cannot be enumerated
rewrite_value(db, v) ==
    IF v.kind = "str" THEN rewrite_references(db, v.val)
    ELSE IF v.kind = "dict" THEN rewrite_references(db, keys(v.val))
    ELSE Raised("TypeError")

InitRewrite ==
    /\ tasks = TaskList({}, {}, {}, {})
    /\ Start
    /\ argument \in Arguments
    /\ records \in RecordStores
    /\ rewritten = NotCalled
    /\ again = NotCalled
    /\ NoGraph
    /\ NoRequest
    /\ NoWorkload
    /\ NoStore
    /\ NoCleanup
    /\ NoBuild
    /\ NoHashing
    /\ NoBackend
    /\ NoRace
    /\ NoChores

run_vars == <<tasks, pc, store, cache, groups, built, waiting, my_status, gi,
              ti, running, in_hash, out_hash, cur, submitted, probed, awaited,
              events, fpOf, final, cacheWriter, faults, task_objs, sent, reads>>

\* what rewrite_references leaves alone
outside_rewrite == <<run_vars, dag_vars, serve_vars, wait_vars, store_vars,
                     cleanup_vars, build_vars, hash_vars, backend_vars,
                     race_vars, chore_vars>>

\* rewrite_references(pipeline_id, argument)
Rewrite ==
    /\ rewritten = NotCalled
    /\ rewritten' = rewrite_references(records, argument)
    /\ UNCHANGED <<argument, records, again>>
    /\ UNCHANGED outside_rewrite

\* rewrite_references called on what the first call returned
RewriteAgain ==
    /\ rewritten.kind \notin {"not called", "raised"}
    /\ again = NotCalled
    /\ again' = rewrite_value(records, rewritten)
    /\ UNCHANGED <<argument, records, rewritten>>
    /\ UNCHANGED outside_rewrite

NextRewrite == Rewrite \/ RewriteAgain

SpecRewrite == InitRewrite /\ [][NextRewrite]_vars

\* ------------------------------ topo_sort, topo_sort_parallel on a graph
DagNodes == 1..MaxNodes

\* a Graph: the keys it holds, each with the nodes its edges lead to
Graphs == UNION {[K -> SUBSET DagNodes] : K \in SUBSET DagNodes}

\* froms[nd] of a defaultdict(set)
Edges(froms, nd) == IF nd \in DOMAIN froms THEN froms[nd] ELSE {}

InitDag ==
    /\ tasks = TaskList({}, {}, {}, {})
    /\ Start
    /\ NoArgument
    /\ graph \in Graphs
    /\ kahn = KahnIdle
    /\ parallel = [kind |-> "not called", val |-> <<>>]
    /\ NoRequest
    /\ NoWorkload
    /\ NoStore
    /\ NoCleanup
    /\ NoBuild
    /\ NoHashing
    /\ NoBackend
    /\ NoRace
    /\ NoChores

\* what topo_sort and topo_sort_parallel leave alone
outside_dag == <<run_vars, rewrite_vars, serve_vars, wait_vars, store_vars,
                 cleanup_vars, build_vars, hash_vars, backend_vars, race_vars,
                 chore_vars>>

\* topo_sort: reverse the graph, copy it, collect the nodes without
\* incoming edges
KahnStart ==
    /\ kahn.state = "not called"
    /\ LET tos == rev_graph(graph)
       IN  kahn' = [state |-> "loop", froms |-> graph, tos |-> tos,
                    no_ins |-> {nd \in DOMAIN tos \cup DOMAIN graph : tos[nd] = {}},
                    sort |-> <<>>]
    /\ UNCHANGED <<graph, parallel>>
    /\ UNCHANGED outside_dag

\* one round of the while loop of topo_sort_kahn: nd is what no_ins.pop() gives
KahnPop(nd) ==
    /\ kahn.state = "loop"
    /\ nd \in kahn.no_ins
    /\ LET out == Edges(kahn.froms, nd)
           tos == [nd2 \in DOMAIN kahn.tos |->
                      IF nd2 \in out THEN kahn.tos[nd2] \ {nd} ELSE kahn.tos[nd2]]
       IN  kahn' = [state |-> "loop",
                    froms |-> (nd :> {}) @@ kahn.froms,
                    tos |-> tos,
                    no_ins |-> (kahn.no_ins \ {nd}) \cup {nd2 \in out : tos[nd2] = {}},
                    sort |-> Append(kahn.sort, nd)]
    /\ UNCHANGED <<graph, parallel>>
    /\ UNCHANGED outside_dag

\* no_ins is empty: an edge that is left is a cycle, else the sort is returned
KahnEnd ==
    /\ kahn.state = "loop"
    /\ kahn.no_ins = {}
    /\ kahn' = [kahn EXCEPT !.state =
                   IF \E nd \in DOMAIN kahn.froms : kahn.froms[nd] # {}
                   THEN "raised" ELSE "returned"]
    /\ UNCHANGED <<graph, parallel>>
    /\ UNCHANGED outside_dag

\* topo_sort_parallel(graph)
SortParallel ==
    /\ parallel.kind = "not called"
    /\ parallel' = IF HasCycle(rev_graph(graph))
                   THEN [kind |-> "raised", val |-> <<>>]
                   ELSE [kind |-> "returned", val |-> topo_sort_parallel(graph)]
    /\ UNCHANGED <<graph, kahn>>
    /\ UNCHANGED outside_dag

NextDag ==
    \/ KahnStart
    \/ \E nd \in DagNodes : KahnPop(nd)
    \/ KahnEnd
    \/ SortParallel

SpecDag == InitDag /\ [][NextDag]_vars

\* ------------------------------------- handle_request, a START request
\* task i carries the name of task j
Renamed(ts, i, j) == [ts EXCEPT ![i].name = ts[j].name]

\* The task lists of a START request: at most one dotted name, one `depends`
\* entry and one reference in the args of a task, no layer wider than
\* MaxWidth; a task may carry the name of the first task.
ServeTaskLists ==
    LET lists == {TaskList(dotted, deps, refs, {}) :
                    dotted \in SubsetsUpTo(1..NumTasks, 1),
                    deps \in SubsetsUpTo((1..NumTasks) \X DepNames, 1),
                    refs \in SubsetsUpTo((1..NumTasks) \X {"args"} \X Forms \X DepNames, 1)}
        sized == {ts \in lists : Width(ts) <= MaxWidth}
    IN  sized \cup {Renamed(ts, i, 1) : ts \in sized, i \in 2..NumTasks}

\* the ValueError read_pipeline_config raises for a name found twice, or
\* NoError
read_pipeline_config_error(ts) ==
    LET twice == {i \in 1..Len(ts) : \E j \in 1..(i - 1) : ts[j].name = ts[i].name}
    IN  IF twice # {}
        THEN [kind |-> "unique", about |-> ts[Min(twice)].name, node |-> <<>>]
        ELSE NoError

Frame(status, response) == [status |-> status, response |-> response]

\* websocket.send(frame): the frame reaches a client whose connection is open
Sent(frame) == IF connection = "open" THEN Append(frames, frame) ELSE frames

\* run has returned or an exception has left it
RunOver == pc \in {"done", "raised", "crashed"}

InitServe ==
    /\ tasks \in ServeTaskLists
    /\ Start
    /\ NoArgument
    /\ NoGraph
    /\ handler = "START"
    /\ connection = "open"
    /\ frames = <<>>
    /\ relayed = 0
    /\ NoWorkload
    /\ NoStore
    /\ NoCleanup
    /\ NoBuild
    /\ NoHashing
    /\ NoBackend
    /\ NoRace
    /\ NoChores

\* what handle_request leaves to run and to the other calls
outside_serve == <<run_vars, rewrite_vars, dag_vars, wait_vars, store_vars,
                   cleanup_vars, build_vars, hash_vars, backend_vars,
                   race_vars, chore_vars>>

\* read_pipeline_config raises: the handler of `except Exception` sends an
\* ERROR frame, and ConnectionClosed leaves handle_request when it cannot
ConfigRaises ==
    /\ handler = "START"
    /\ read_pipeline_config_error(tasks) # NoError
    /\ frames' = Sent(Frame("ERROR", Event(read_pipeline_config_error(tasks).kind, 0)))
    /\ handler' = IF connection = "open" THEN "returned" ELSE "raised"
    /\ UNCHANGED <<connection, relayed>>
    /\ UNCHANGED outside_serve

\* read_pipeline_config returns and the pipeline id is sent: pipe.run is
\* entered when the frame could be sent, ConnectionClosed leaves
\* handle_request when it could not
ConfigReturns ==
    /\ handler = "START"
    /\ read_pipeline_config_error(tasks) = NoError
    /\ frames' = Sent(Frame("OK", Event("pipe_id", 0)))
    /\ handler' = IF connection = "open" THEN "run" ELSE "raised"
    /\ UNCHANGED <<connection, relayed>>
    /\ UNCHANGED outside_serve

\* the body of `async for` returns when the connection is closed
Relay_ReturnWhenClosed ==
    /\ handler = "run"
    /\ relayed < Len(events)
    /\ frames' = Sent(Frame("OK", events[relayed + 1]))
    /\ relayed' = relayed + 1
    /\ handler' = IF connection = "open" THEN handler ELSE "returned"
    /\ UNCHANGED <<connection>>
    /\ UNCHANGED outside_serve

\* the body of `async for`: send the event run yielded, go on when the
\* connection is closed
Relay ==
    /\ handler = "run"
    /\ relayed < Len(events)
    /\ frames' = Sent(Frame("OK", events[relayed + 1]))
    /\ relayed' = relayed + 1
    /\ UNCHANGED <<handler, connection>>
    /\ UNCHANGED outside_serve

\* run returned: the END frame is sent, if it can be
RunReturns ==
    /\ handler = "run"
    /\ relayed = Len(events)
    /\ pc = "done"
    /\ frames' = Sent(Frame("END", Event("pipe_id", 0)))
    /\ handler' = "returned"
    /\ UNCHANGED <<connection, relayed>>
    /\ UNCHANGED outside_serve

\* an exception left run: the handler of `except Exception` sends an ERROR
\* frame, and ConnectionClosed leaves handle_request when it cannot
RunRaises ==
    /\ handler = "run"
    /\ relayed = Len(events)
    /\ pc \in {"raised", "crashed"}
    /\ frames' = Sent(Frame("ERROR", IF pc = "raised"
                                       THEN Event(store[PipeId].error_message.kind, 0)
                                       ELSE Event("KeyError", 0)))
    /\ handler' = IF connection = "open" THEN "returned" ELSE "raised"
    /\ UNCHANGED <<connection, relayed>>
    /\ UNCHANGED outside_serve

\* the client closes its connection
ClientCloses ==
    /\ handler \in {"START", "run"}
    /\ connection = "open"
    /\ connection' = "closed"
    /\ UNCHANGED <<handler, frames, relayed>>
    /\ UNCHANGED outside_serve

\* `async for` asks run for its next event: run goes on from where it
\* yielded the last one
Driven == handler = "run" /\ relayed = Len(events)

Drive == Driven /\ NextRefs

NextServe ==
    \/ ConfigRaises
    \/ ConfigReturns
    \/ Relay
    \/ RunReturns
    \/ RunRaises
    \/ ClientCloses
    \/ Drive

SpecServe == InitServe /\ [][NextServe]_vars

\* ---------------------- KubernetesTaskManager.wait_for, status; handlers
TERMINAL_PHASES == {"Terminated", "Succeeded", "Error", "Failed", "ErrImagePull"}

\* the pod phases of the model: two that are not terminal, two that are
PodPhases == {"Pending", "Running", "Succeeded", "Failed"}

MultiPodTypes == {"TFJob", "PyTorchJob", "MPIJob", "ElasticJob"}

ResourceTypes == {"Pod", "Job"} \cup MultiPodTypes

\* the lists of at most n pod phases
PhaseLists(n) == UNION {[1..k -> PodPhases] : k \in 0..n}

\* what a handler or the task manager gives: a Status, the status object of
\* a pod or of a job, or an exception
Given(kind, val) == [kind |-> kind, val |-> val]

from_pod_status(phase) ==
    IF phase \notin TERMINAL_PHASES THEN RUNNING
    ELSE IF phase = "Succeeded" THEN SUCCEEDED
    ELSE FAILED

\* status = statuses[0]
first_status(listed) ==
    IF listed = <<>> THEN Given("raised", "IndexError")
    ELSE Given("V1PodStatus", listed[1])

\* handler.status(name, store) for the pods get_pods lists; `gone` when the
\* resource of that name is not in the cluster
handler_status(type, listed, gone) ==
    IF type = "Pod"
    THEN IF gone THEN Given("raised", "ApiException")
         ELSE Given("V1PodStatus", listed[1])
    ELSE IF type = "Job"
    THEN IF gone THEN Given("raised", "ApiException")
         ELSE Given("V1JobStatus", "status")
    ELSE IF type = "MPIJob"
    THEN IF Len(listed) # 1 THEN Given("Status", RUNNING)
         ELSE first_status(listed)
    ELSE IF \E i \in DOMAIN listed : listed[i] \notin TERMINAL_PHASES
    THEN Given("Status", RUNNING)
    ELSE first_status(listed)

\* KubernetesTaskManager.status: a Status is passed on, a status object is
\* read as the status of a pod (a V1JobStatus has no phase), an
\* ApiException gives MISSING, any other exception leaves the call
manager_status(type, listed, gone) ==
    LET given == handler_status(type, listed, gone)
    IN  IF given.kind = "Status" THEN given
        ELSE IF given.kind = "V1PodStatus"
        THEN Given("Status", from_pod_status(given.val))
        ELSE IF given.kind = "V1JobStatus"
        THEN Given("raised", "AttributeError")
        ELSE IF given.val = "ApiException" THEN Given("Status", MISSING)
        ELSE given

InitWait ==
    /\ tasks = TaskList({}, {}, {}, {})
    /\ Start
    /\ NoArgument
    /\ NoGraph
    /\ NoRequest
    /\ NoStore
    /\ resource_type \in ResourceTypes
    /\ pods \in IF resource_type \in MultiPodTypes THEN PhaseLists(MaxPods)
                ELSE [1..1 -> PodPhases]
    /\ deleted = FALSE
    /\ wait = [state |-> "polling", status |-> "none", polls |-> 0]
    /\ NoCleanup
    /\ NoBuild
    /\ NoHashing
    /\ NoBackend
    /\ NoRace
    /\ NoChores

\* what wait_for and the cluster leave alone
outside_wait == <<run_vars, rewrite_vars, dag_vars, serve_vars, store_vars,
                  cleanup_vars, build_vars, hash_vars, backend_vars, race_vars,
                  chore_vars>>

\* one turn of the loop of wait_for: self.status(task), then sleep or return
Poll ==
    /\ wait.state = "polling"
    /\ wait.polls < MaxPolls
    /\ LET given == manager_status(resource_type, pods, deleted)
       IN  wait' = [state |-> IF given.kind = "raised" THEN "raised"
                              ELSE IF given.val = RUNNING THEN "polling"
                              ELSE "returned",
                    status |-> given.val,
                    polls |-> wait.polls + 1]
    /\ UNCHANGED <<resource_type, pods, deleted>>
    /\ UNCHANGED outside_wait

\* a pod of the workload gets on
PodMoves(i, phase) ==
    /\ wait.state = "polling"
    /\ ~deleted
    /\ i \in DOMAIN pods
    /\ pods[i] \notin TERMINAL_PHASES
    /\ phase \notin {pods[i], "Pending"}
    /\ pods' = [pods EXCEPT ![i] = phase]
    /\ UNCHANGED <<resource_type, deleted, wait>>
    /\ UNCHANGED outside_wait

\* the workload is deleted from outside: the resource and its pods are gone
Kill ==
    /\ wait.state = "polling"
    /\ ~deleted
    /\ deleted' = TRUE
    /\ pods' = <<>>
    /\ UNCHANGED <<resource_type, wait>>
    /\ UNCHANGED outside_wait

NextWait ==
    \/ Poll
    \/ \E i \in 1..MaxPods, phase \in PodPhases : PodMoves(i, phase)
    \/ Kill

SpecWait == InitWait /\ [][NextWait]_vars

\* ------------------------------------------------ MemoryStore, Store.set
StoreLabels == {"a", "b"}

\* the records a caller may hand to set: with a label or without one
StoreRecords ==
    [label : StoreLabels, status : {RUNNING, DONE}]
        \cup [status : {RUNNING, DONE}] \cup {<<>>}

\* what a caller hands to set: None or a dict
StoreValues == {NoneValue} \cup {Dict(r) : r \in StoreRecords}

\* Store._set_preconditions: None and a dict without `label` raise
set_preconditions(value) ==
    IF value.kind = "None" THEN Given("raised", "Exception")
    ELSE IF "label" \notin DOMAIN value.val THEN Given("raised", "Exception")
    ELSE Given("returned", "None")

\* the record stays in the dict
Delete_Nothing(db, job_id) == db

\* del self.db[job_id]
Delete(db, job_id) == [l \in DOMAIN db \ {job_id} |-> db[l]]

Called(op, arg, result) ==
    [op |-> op, arg |-> arg, result |-> result, seq |-> call.seq + 1]

InitStore ==
    /\ tasks = TaskList({}, {}, {}, {})
    /\ Start
    /\ NoArgument
    /\ NoGraph
    /\ NoRequest
    /\ NoWorkload
    /\ jobs_db = <<>>
    /\ call = [op |-> "none", arg |-> <<>>, result |-> Given("none", "None"),
               seq |-> 0]
    /\ latest = <<>>
    /\ NoCleanup
    /\ NoBuild
    /\ NoHashing
    /\ NoBackend
    /\ NoRace
    /\ NoChores

\* what the store leaves alone
outside_store == <<run_vars, rewrite_vars, dag_vars, serve_vars, wait_vars,
                   cleanup_vars, build_vars, hash_vars, backend_vars,
                   race_vars, chore_vars>>

\* Store.set(value): the preconditions, then MemoryStore._set
StoreSet(value) ==
    /\ call.seq < MaxCalls
    /\ LET checked == set_preconditions(value)
       IN  /\ call' = Called("set", value, checked)
           /\ jobs_db' = IF checked.kind = "raised" THEN jobs_db
                          ELSE Set(jobs_db, value.val)
    /\ latest' = IF value.kind = "dict" /\ "label" \in DOMAIN value.val
                 THEN (value.val.label :> value.val) @@ latest
                 ELSE latest
    /\ UNCHANGED outside_store

\* MemoryStore.get(job_id)
StoreGet(job_id) ==
    /\ call.seq < MaxCalls
    /\ call' = Called("get", [kind |-> "label", val |-> job_id],
                      IF job_id \in DOMAIN jobs_db
                      THEN [kind |-> "returned", val |-> jobs_db[job_id]]
                      ELSE Given("raised", "KeyError"))
    /\ UNCHANGED <<jobs_db, latest>>
    /\ UNCHANGED outside_store

\* MemoryStore.exists(job_id)
StoreExists(job_id) ==
    /\ call.seq < MaxCalls
    /\ call' = Called("exists", [kind |-> "label", val |-> job_id],
                      Given("returned", Exists(jobs_db, job_id)))
    /\ UNCHANGED <<jobs_db, latest>>
    /\ UNCHANGED outside_store

\* MemoryStore.remove(job_id)
StoreRemove(job_id) ==
    /\ call.seq < MaxCalls
    /\ call' = Called("remove", [kind |-> "label", val |-> job_id],
                      Given("returned", job_id \in DOMAIN jobs_db))
    /\ jobs_db' = IF job_id \in DOMAIN jobs_db THEN Delete(jobs_db, job_id)
                  ELSE jobs_db
    /\ latest' = [l \in DOMAIN latest \ {job_id} |-> latest[l]]
    /\ UNCHANGED outside_store

NextStore ==
    \/ \E value \in StoreValues : StoreSet(value)
    \/ \E job_id \in StoreLabels : StoreGet(job_id)
    \/ \E job_id \in StoreLabels : StoreExists(job_id)
    \/ \E job_id \in StoreLabels : StoreRemove(job_id)

SpecStore == InitStore /\ [][NextStore]_vars

\* ------------------------------------------------------- odin/cleanup.py
\* list(chain(parent_details[EXECUTED], parent_details[EXECUTING]))
Children(parent_details) == parent_details.executed \o parent_details.executing

\* the children that sched.kill can find on the cluster
OnCluster(db, children) ==
    {t \in Elems(children) :
        Exists(db, t) /\ Get(db[t], "resource_id", None) = "resource"}

\* store.remove(job) for every job of the list
RECURSIVE RemoveEach(_, _)
RemoveEach(db, jobs) ==
    IF jobs = <<>> THEN db
    ELSE RemoveEach(IF Exists(db, Head(jobs)) THEN Delete(db, Head(jobs)) ELSE db,
                    Tail(jobs))

\* what the cleanup leaves alone
outside_cleanup == <<rewrite_vars, dag_vars, serve_vars, wait_vars, store_vars,
                     build_vars, hash_vars, backend_vars, race_vars,
                     chore_vars>>

\* cleanup(work, store, sched, purge_db) on the pipeline that run has left:
\* kill every child in executed and executing, a kill that raises is passed
\* over; with purge_db remove the records of the children, then the record
\* of the pipeline
Cleanup(purge_db, killed) ==
    /\ pc \in {"done", "raised"}
    /\ cleaned = NotCleaned
    /\ Exists(store, PipeId)
    /\ LET children == Children(store[PipeId])
           jobs == children \o <<PipeId>>
       IN  /\ killed \subseteq OnCluster(store, children)
           /\ store' = IF purge_db THEN RemoveEach(store, jobs) ELSE store
           /\ cleaned' = [state |-> "returned",
                          killed |-> killed,
                          purged |-> IF purge_db
                                     THEN {j \in Elems(jobs) : Exists(store, j)}
                                     ELSE {}]
    /\ UNCHANGED <<tasks, pc, cache, groups, built, waiting, my_status, gi, ti,
                   running, in_hash, out_hash, cur, submitted, probed, awaited,
                   events, fpOf, final, cacheWriter, faults, task_objs, sent,
                   reads>>
    /\ UNCHANGED outside_cleanup

NextCleanup ==
    \/ Next
    \/ \E purge_db \in BOOLEAN, killed \in SUBSET Tasks : Cleanup(purge_db, killed)

\* run on a task list, then cleanup of the pipeline
SpecCleanup == Init /\ [][NextCleanup]_vars

\* ------------------------------- odin/core.py: create_graph(task_list,
\* external_inputs)
\* A string value of a task field: `^` or not, then the dot-separated
\* segments.  External is the name of an external input that no task
\* carries; the name of task 1 may be the name of an external input too.
External == <<9>>

Text(caret, segs) == [caret |-> caret, segs |-> segs]

DefNames == {TaskName(i) : i \in 1..NumDefs} \cup {External, Ghost}

ValueStrings ==
    {Text(caret, segs) :
        caret \in BOOLEAN,
        segs \in DefNames \cup {n \o <<0>> : n \in DefNames}}

\* the places of a string: <<task, field, string>>
ValuePlaces == (1..NumDefs) \X {"depends", "other"} \X ValueStrings

\* a task list of NumDefs tasks: task 2 carries the name of task 1 when
\* `twice` holds
TaskDefs(twice, places) ==
    [i \in 1..NumDefs |->
        [name |-> IF twice /\ i = 2 THEN TaskName(1) ELSE TaskName(i),
         depends |-> {x[3] : x \in {y \in places : y[1] = i /\ y[2] = "depends"}},
         other |-> {x[3] : x \in {y \in places : y[1] = i /\ y[2] = "other"}}]]

\* task.values(), each listified
FieldValues(task) == task.depends \cup task.other

\* parse_reference(value)[0]
FirstSegment(value) == <<value.segs[1]>>

\* src[1:] if src.startswith('^') else src
DependsName(value) == value.segs

\* the names the references of the values ask an edge from
Sources(task, ext) ==
    {FirstSegment(v) :
        v \in {x \in FieldValues(task) : x.caret /\ FirstSegment(x) \notin ext}}

\* the tasks at which create_graph finds a dependency that names no task
Phantoms(ts, ext) ==
    {dst \in 1..Len(ts) :
        \/ \E d \in ts[dst].depends : ~HasName(ts, DependsName(d))
        \/ \E n \in Sources(ts[dst], ext) : ~HasName(ts, n)}

\* create_graph raises
create_graph_raises(ts, ext) ==
    \/ \E i \in 1..Len(ts) : HasDot(ts[i].name)
    \/ Phantoms(ts, ext) # {}

\* what it raises: ValueError, or KeyError when the message is built for a
\* task that idx2name does not hold, its name being carried by a later task
RaisedBy(ts, ext) ==
    IF \E i \in 1..Len(ts) : HasDot(ts[i].name) THEN "ValueError"
    ELSE LET dst == Min(Phantoms(ts, ext))
         IN  IF name2idx(ts, ts[dst].name) = dst THEN "ValueError"
             ELSE "KeyError"

\* the graph create_graph returns, or the error it raises
create_graph_with(ts, ext) ==
    IF create_graph_raises(ts, ext)
    THEN [kind |-> RaisedBy(ts, ext), val |-> <<>>]
    ELSE [kind |-> "graph",
          val |-> [src \in 1..Len(ts) |->
                     {dst \in 1..Len(ts) :
                         \/ \E d \in ts[dst].depends :
                               name2idx(ts, DependsName(d)) = src
                         \/ \E n \in Sources(ts[dst], ext) :
                               name2idx(ts, n) = src}]]

InitBuild ==
    /\ tasks = TaskList({}, {}, {}, {})
    /\ Start
    /\ NoArgument
    /\ NoGraph
    /\ NoRequest
    /\ NoWorkload
    /\ NoStore
    /\ NoCleanup
    /\ \E twice \in BOOLEAN, places \in SubsetsUpTo(ValuePlaces, MaxValues) :
          task_defs = TaskDefs(twice, places)
    /\ external_inputs \in SUBSET {External, TaskName(1)}
    /\ made = NotMade
    /\ NoHashing
    /\ NoBackend
    /\ NoRace
    /\ NoChores

\* what create_graph leaves alone
outside_build == <<run_vars, rewrite_vars, dag_vars, serve_vars, wait_vars,
                   store_vars, cleanup_vars, hash_vars, backend_vars,
                   race_vars, chore_vars>>

\* create_graph(task_list, external_inputs)
CreateGraph ==
    /\ made = NotMade
    /\ made' = create_graph_with(task_defs, external_inputs)
    /\ UNCHANGED <<task_defs, external_inputs>>
    /\ UNCHANGED outside_build

NextBuild == CreateGraph

SpecBuild == InitBuild /\ [][NextBuild]_vars

\* ------------------------------- odin/k8s.py: hash_task, wait_until_running
HASH_TRAILING == "-hash"

\* the Task objects handed to hash_task: a Pod task with or without mounts,
\* a node selector and a request of GPUs
TaskObjects ==
    [name : {<<"train">>},
     image : {"image"},
     command : {"python"},
     args : {<<>>, <<"--epochs">>},
     mounts : {None, "volume"},
     num_gpus : {0, 1},
     node_selector : {None, "selector"}]

\* the attribute `mount` is set on the copy; the field `mounts` that the
\* handlers read is left as it was copied
HashProbe(task) ==
    [task EXCEPT !.name = Append(@, HASH_TRAILING),
                 !.args = <<"300">>,
                 !.command = "sleep",
                 !.node_selector = None,
                 !.num_gpus = None]

\* the digests of the images in the container statuses of the pod
Digests(spec) == <<spec.image>>

InitHash ==
    /\ tasks = TaskList({}, {}, {}, {})
    /\ Start
    /\ NoArgument
    /\ NoGraph
    /\ NoRequest
    /\ NoWorkload
    /\ NoStore
    /\ NoCleanup
    /\ NoBuild
    /\ hashed \in TaskObjects
    /\ probe = NoObject
    /\ workload = NoPod
    /\ hashing = [state |-> "called", polls |-> 0, seen |-> "none",
                  result |-> <<>>]
    /\ NoBackend
    /\ NoRace
    /\ NoChores

\* what hash_task and the cluster leave alone
outside_hash == <<run_vars, rewrite_vars, dag_vars, serve_vars, wait_vars,
                  store_vars, cleanup_vars, build_vars, backend_vars,
                  race_vars, chore_vars>>

\* the copy is made and changed, and submit creates the pod of the probe
ProbeSubmitted ==
    /\ hashing.state = "called"
    /\ probe' = HashProbe(hashed)
    /\ workload' = [state |-> "created", spec |-> probe', phase |-> "Pending"]
    /\ hashing' = [hashing EXCEPT !.state = "waiting"]
    /\ UNCHANGED hashed
    /\ UNCHANGED outside_hash

\* the copy is made and changed, and submit raises SubmitError
ProbeRefused ==
    /\ hashing.state = "called"
    /\ probe' = HashProbe(hashed)
    /\ hashing' = [hashing EXCEPT !.state = "raised"]
    /\ UNCHANGED <<hashed, workload>>
    /\ UNCHANGED outside_hash

\* the pod of the probe gets on: it starts, it fails before it starts, or
\* its sleep ends
ProbeMoves(phase) ==
    /\ workload.state = "created"
    /\ \/ workload.phase = "Pending" /\ phase \in {"Running", "Failed"}
       \/ workload.phase = "Running" /\ phase \in {"Succeeded", "Failed"}
    /\ workload' = [workload EXCEPT !.phase = phase]
    /\ UNCHANGED <<hashed, probe, hashing>>
    /\ UNCHANGED outside_hash

\* wait_until_running leaves its loop: the phase is Running
Awaited(phase) == phase = "Running"

\* one turn of the loop of wait_until_running; when the loop is left the
\* container statuses are read, the probe is killed and the digests returned
ProbePolled ==
    /\ hashing.state = "waiting"
    /\ hashing.polls < MaxPolls
    /\ IF Awaited(workload.phase)
       THEN /\ hashing' = [state |-> "returned", polls |-> hashing.polls + 1,
                           seen |-> workload.phase,
                           result |-> Digests(workload.spec)]
            /\ workload' = [workload EXCEPT !.state = "deleted"]
       ELSE /\ hashing' = [hashing EXCEPT !.polls = @ + 1,
                                          !.seen = workload.phase]
            /\ UNCHANGED workload
    /\ UNCHANGED <<hashed, probe>>
    /\ UNCHANGED outside_hash

NextHash ==
    \/ ProbeSubmitted
    \/ ProbeRefused
    \/ \E phase \in PodPhases : ProbeMoves(phase)
    \/ ProbePolled

SpecHash == InitHash /\ [][NextHash]_vars

\* ------------------------- odin/mongo/store.py, odin/postgres/store.py
\* the database stores under the calls
Backends == {"mongo", "postgres"}

\* a key a caller may leave out of the dict
Optional(key, values) == {<<>>} \cup {key :> v : v \in values}

\* the dicts a caller hands to set: label and status, and any of
\* submit_time, completion_time and outputs
JobRecords ==
    {[label |-> l, status |-> s] @@ st @@ ct @@ out :
        l \in StoreLabels, s \in {RUNNING, DONE},
        st \in Optional("submit_time", {"t1", "t2"}),
        ct \in Optional("completion_time", {"t3"}),
        out \in Optional("outputs", {"o1"})}

\* d.pop(key, default) gives this
Pop(d, key, default) == IF key \in DOMAIN d THEN d[key] ELSE default

\* and leaves this in d
Without(d, popped) == [k \in DOMAIN d \ popped |-> d[k]]

\* MongoStore._get_if: find_one gives the document or None
mongo_get_if(db, job_id) ==
    IF job_id \in DOMAIN db THEN Dict(db[job_id]) ELSE NoneValue

\* MongoStore.get
mongo_get(db, job_id) ==
    LET result == mongo_get_if(db, job_id)
    IN  IF result.kind = "None" THEN Given("raised", "KeyError")
        ELSE Given("returned", result.val)

\* MongoStore._set: replace_one(..., upsert=True) puts value in the place of
\* the document of that label, which keeps its _id, or inserts it
mongo_set(db, value) ==
    LET found == mongo_get_if(db, value.label)
        oid == IF found.kind = "None" THEN "oid" ELSE found.val["_id"]
    IN  (value.label :> (("_id" :> oid) @@ value)) @@ db

\* MongoStore.exists
mongo_exists(db, job_id) == mongo_get_if(db, job_id).kind # "None"

\* MongoStore.remove: what it returns
mongo_removed(db, job_id) ==
    IF mongo_get_if(db, job_id).kind = "None" THEN Given("returned", FALSE)
    ELSE Given("returned", TRUE)

\* MongoStore.remove: what it leaves
mongo_remove(db, job_id) ==
    IF mongo_get_if(db, job_id).kind = "None" THEN db ELSE Delete(db, job_id)

\* PostgresStore._get_if: a Query over the rows of that label, never None
postgres_get_if(db, job_id) ==
    [kind |-> "Query",
     val |-> IF job_id \in DOMAIN db THEN <<db[job_id]>> ELSE <<>>]

\* Query.scalar() and Query.first(): the row, or None where there is none
scalar(query) ==
    IF query.val = <<>> THEN NoneValue ELSE Dict(query.val[1])

\* PostgresStore._pack_job_info
pack_job_info(job) ==
    job.details @@ [label |-> job.label, job |-> job.job_name,
                    status |-> job.status, submit_time |-> job.submit_time,
                    version |-> job.version, parent |-> job.parent_label]

\* PostgresStore.get
postgres_get(db, job_id) ==
    LET result == scalar(postgres_get_if(db, job_id))
    IN  IF result.kind = "None" THEN Given("raised", "KeyError")
        ELSE Given("returned", pack_job_info(result.val))

\* the keys PostgresStore._set pops into columns
Columns == {"label", "parent", "job", "completion_time", "submit_time",
            "status", "version"}

\* PostgresStore._set; `tracked` says whether the update in place of the
\* details, a JSON column without mutation tracking, reaches the database
postgres_set(db, value, tracked) ==
    LET d == Without(value, Columns)
        id == value.label
        parent_label == Pop(value, "parent", None)
        job_name == Pop(value, "job", None)
        completion_time == Pop(value, "completion_time", None)
        submit_time == Pop(value, "submit_time", "now")
        status == Pop(value, "status", None)
        version == Pop(value, "version", None)
        kv == scalar(postgres_get_if(db, id))
    IN  IF kv.kind # "None"
        THEN (id :> [kv.val EXCEPT
                  !.details = IF tracked THEN d @@ @ ELSE @,
                  !.status = IF status # None THEN status ELSE @,
                  !.completion_time =
                      IF completion_time # None THEN completion_time ELSE @])
             @@ db
        ELSE (id :> [label |-> id, details |-> d, version |-> version,
                     status |-> status, submit_time |-> submit_time,
                     completion_time |-> completion_time,
                     parent_label |-> parent_label, job_name |-> job_name])
             @@ db

\* PostgresStore.exists
postgres_exists(db, job_id) == postgres_get_if(db, job_id).kind # "None"

\* the rows PostgresStore.remove deletes before the row of job_id
ChildRows(db, job_id) == {l \in DOMAIN db : db[l].parent_label = job_id}

\* PostgresStore.remove: session.delete(None) raises, else True
postgres_removed(db, job_id) ==
    IF scalar(postgres_get_if(db, job_id)).kind = "None"
    THEN Given("raised", "UnmappedInstanceError")
    ELSE Given("returned", TRUE)

\* PostgresStore.remove: what is committed
postgres_remove(db, job_id) ==
    IF postgres_removed(db, job_id).kind = "raised" THEN db
    ELSE [l \in DOMAIN db \ (ChildRows(db, job_id) \cup {job_id}) |-> db[l]]

\* the four calls, by backend
BackendGet(job_id) ==
    IF backend = "mongo" THEN mongo_get(rows, job_id)
    ELSE postgres_get(rows, job_id)

BackendExists(job_id) ==
    IF backend = "mongo" THEN mongo_exists(rows, job_id)
    ELSE postgres_exists(rows, job_id)

BackendRemoved(job_id) ==
    IF backend = "mongo" THEN mongo_removed(rows, job_id)
    ELSE postgres_removed(rows, job_id)

BackendRemove(job_id) ==
    IF backend = "mongo" THEN mongo_remove(rows, job_id)
    ELSE postgres_remove(rows, job_id)

\* calls of a database store in one history
BackendCalls == 3

Answered(op, given, expected) ==
    [op |-> op, given |-> given, expected |-> expected, seq |-> answer.seq + 1]

InitBackend ==
    /\ tasks = TaskList({}, {}, {}, {})
    /\ Start
    /\ NoArgument
    /\ NoGraph
    /\ NoRequest
    /\ NoWorkload
    /\ NoStore
    /\ NoCleanup
    /\ NoBuild
    /\ NoHashing
    /\ backend \in Backends
    /\ rows = <<>>
    /\ memory = <<>>
    /\ answer = NoAnswer
    /\ NoRace
    /\ NoChores

\* what the stores leave alone
outside_backend == <<run_vars, rewrite_vars, dag_vars, serve_vars, wait_vars,
                     store_vars, cleanup_vars, build_vars, hash_vars,
                     race_vars, chore_vars>>

\* Store.set(value) on the database store and on the MemoryStore
SetBoth(value, tracked) ==
    /\ answer.seq < BackendCalls
    /\ rows' = IF backend = "mongo" THEN mongo_set(rows, value)
               ELSE postgres_set(rows, value, tracked)
    /\ memory' = Set(memory, value)
    /\ answer' = Answered("set", Given("returned", None),
                          Given("returned", None))
    /\ UNCHANGED backend
    /\ UNCHANGED outside_backend

\* get(job_id) on both
GetBoth(job_id) ==
    /\ answer.seq < BackendCalls
    /\ answer' = Answered("get", BackendGet(job_id),
                          IF job_id \in DOMAIN memory
                          THEN Given("returned", memory[job_id])
                          ELSE Given("raised", "KeyError"))
    /\ UNCHANGED <<backend, rows, memory>>
    /\ UNCHANGED outside_backend

\* exists(job_id) on both
ExistsBoth(job_id) ==
    /\ answer.seq < BackendCalls
    /\ answer' = Answered("exists", Given("returned", BackendExists(job_id)),
                          Given("returned", Exists(memory, job_id)))
    /\ UNCHANGED <<backend, rows, memory>>
    /\ UNCHANGED outside_backend

\* remove(job_id) on both
RemoveBoth(job_id) ==
    /\ answer.seq < BackendCalls
    /\ answer' = Answered("remove", BackendRemoved(job_id),
                          Given("returned", job_id \in DOMAIN memory))
    /\ rows' = BackendRemove(job_id)
    /\ memory' = IF job_id \in DOMAIN memory THEN Delete(memory, job_id)
                 ELSE memory
    /\ UNCHANGED backend
    /\ UNCHANGED outside_backend

NextBackend ==
    \/ \E value \in JobRecords, tracked \in BOOLEAN : SetBoth(value, tracked)
    \/ \E job_id \in StoreLabels : GetBoth(job_id)
    \/ \E job_id \in StoreLabels : ExistsBoth(job_id)
    \/ \E job_id \in StoreLabels : RemoveBoth(job_id)

SpecBackend == InitBackend /\ [][NextBackend]_vars

\* ------------------- odin/executor.py and odin/store.py: one task record
\* writes of a task into its record in one run
MaxWrites == 2

\* the label of the task
Worker == "t"

\* the fields a task writes into its record, with the values it may give
TaskWrites ==
    {[field |-> "outputs", value |-> v] : v \in {"o1", "o2"}}
        \cup {[field |-> "request_early_exit", value |-> "True"]}

\* the task record as Executor.run stored it before the first layer
TaskRecord == [label |-> Worker, outputs |-> None]

\* dict.update(more) and d[key] = value
Update(d, more) == more @@ d

Holding(at, val) == [at |-> at, val |-> val]

InitRace ==
    /\ tasks = TaskList({}, {}, {}, {})
    /\ Start
    /\ NoArgument
    /\ NoGraph
    /\ NoRequest
    /\ NoWorkload
    /\ NoStore
    /\ NoCleanup
    /\ NoBuild
    /\ NoHashing
    /\ NoBackend
    /\ docs = mongo_set(<<>>, TaskRecord)
    /\ executor_copy = Holding("submitted", <<>>)
    /\ task_copy = [at |-> "running", val |-> <<>>, writes |-> 0]
    /\ written = <<>>
    /\ NoChores

\* what the two writers leave alone
outside_race == <<run_vars, rewrite_vars, dag_vars, serve_vars, wait_vars,
                  store_vars, cleanup_vars, build_vars, hash_vars,
                  backend_vars, chore_vars>>

\* Executor.run after submit: task_status = self.store.get(task_obj.name)
ExecutorReads ==
    /\ executor_copy.at = "submitted"
    /\ executor_copy' = Holding("read", mongo_get(docs, Worker).val)
    /\ UNCHANGED <<docs, task_copy, written>>
    /\ UNCHANGED outside_race

\* task_status.update({resource_id, submit_time}); self.store.set(task_status)
ExecutorSets ==
    /\ executor_copy.at = "read"
    /\ LET task_status == Update(executor_copy.val,
                                 [resource_id |-> "r1", submit_time |-> "t1"])
       IN  /\ docs' = mongo_set(docs, task_status)
           /\ executor_copy' = Holding("waiting", task_status)
    /\ UNCHANGED <<task_copy, written>>
    /\ UNCHANGED outside_race

\* the wait_for of the task returns once the task has ended; then
\* task_status = self.store.get(task_obj.name)
ExecutorReadsAgain ==
    /\ executor_copy.at = "waiting"
    /\ task_copy.at = "exited"
    /\ executor_copy' = Holding("read again", mongo_get(docs, Worker).val)
    /\ UNCHANGED <<docs, task_copy, written>>
    /\ UNCHANGED outside_race

\* task_status[completion_time] = utcnow(); self.store.set(task_status)
ExecutorSetsAgain ==
    /\ executor_copy.at = "read again"
    /\ LET task_status == Update(executor_copy.val, [completion_time |-> "t2"])
       IN  /\ docs' = mongo_set(docs, task_status)
           /\ executor_copy' = Holding("ended", task_status)
    /\ UNCHANGED <<task_copy, written>>
    /\ UNCHANGED outside_race

\* write_outputs in the container of the task: entry = store.get(label)
TaskReads ==
    /\ task_copy.at = "running"
    /\ task_copy.writes < MaxWrites
    /\ task_copy' = [task_copy EXCEPT !.at = "read",
                                      !.val = mongo_get(docs, Worker).val]
    /\ UNCHANGED <<docs, executor_copy, written>>
    /\ UNCHANGED outside_race

\* entry[field] = value; store.set(entry)
TaskSets(w) ==
    /\ task_copy.at = "read"
    /\ LET entry == Update(task_copy.val, w.field :> w.value)
       IN  /\ docs' = mongo_set(docs, entry)
           /\ task_copy' = [at |-> "running", val |-> entry,
                            writes |-> task_copy.writes + 1]
    /\ written' = Update(written, w.field :> w.value)
    /\ UNCHANGED executor_copy
    /\ UNCHANGED outside_race

\* the container of the task ends
TaskExits ==
    /\ task_copy.at = "running"
    /\ task_copy' = [task_copy EXCEPT !.at = "exited"]
    /\ UNCHANGED <<docs, executor_copy, written>>
    /\ UNCHANGED outside_race

NextRace ==
    \/ ExecutorReads
    \/ ExecutorSets
    \/ ExecutorReadsAgain
    \/ ExecutorSetsAgain
    \/ TaskReads
    \/ \E w \in TaskWrites : TaskSets(w)
    \/ TaskExits

SpecRace == InitRace /\ [][NextRace]_vars

\* ------------------------------------------------------- odin/chores.py
\* chores of a config handed to run_chores
NumChores == 3

ChoreIds == 0..(NumChores - 1)

\* the graphs create_graph gives for NumChores chores: every index is a key
ChoreGraphs == [ChoreIds -> SUBSET ChoreIds]

\* what a chore does when called: it returns, raises ChoreSkippedException,
\* or raises something else
Conducts == {"returns", "gives up", "crashes"}

\* topo_sort_kahn from the state of its while loop on: every list it can
\* return, by what no_ins.pop() gives, or the ValueError of a cycle
RECURSIVE topo_sort_kahn(_, _, _, _)
topo_sort_kahn(froms, tos, no_ins, sort) ==
    IF no_ins = {}
    THEN {IF \E nd \in DOMAIN froms : froms[nd] # {}
          THEN Given("raised", "ValueError") ELSE Given("returned", sort)}
    ELSE UNION {
           LET out == Edges(froms, nd)
               tos2 == [nd2 \in DOMAIN tos |->
                           IF nd2 \in out THEN tos[nd2] \ {nd} ELSE tos[nd2]]
           IN  topo_sort_kahn((nd :> {}) @@ froms, tos2,
                              (no_ins \ {nd}) \cup {nd2 \in out : tos2[nd2] = {}},
                              Append(sort, nd))
           : nd \in no_ins}

\* topo_sort(froms)
topo_sort(froms) ==
    LET tos == rev_graph(froms)
    IN  topo_sort_kahn(froms, tos,
                       {nd \in DOMAIN tos \cup DOMAIN froms : tos[nd] = {}}, <<>>)

\* _find_children(froms, root)
RECURSIVE find_children_of(_, _)
find_children_of(froms, root) ==
    froms[root] \cup UNION {find_children_of(froms, child) : child \in froms[root]}

\* no node has children
find_children_None(froms) == [n \in DOMAIN froms |-> {}]

\* find_children(froms)
find_children(froms) == [n \in DOMAIN froms |-> find_children_of(froms, n)]

\* format_output(res) for a result that is no sequence
format_output(res) == res

InitChores ==
    /\ tasks = TaskList({}, {}, {}, {})
    /\ Start
    /\ NoArgument
    /\ NoGraph
    /\ NoRequest
    /\ NoWorkload
    /\ NoStore
    /\ NoCleanup
    /\ NoBuild
    /\ NoHashing
    /\ NoBackend
    /\ NoRace
    /\ chore_graph \in ChoreGraphs
    /\ conduct \in [ChoreIds -> Conducts]
    /\ chores = ChoresIdle

\* what run_chores leaves alone
outside_chores == <<run_vars, rewrite_vars, dag_vars, serve_vars, wait_vars,
                    store_vars, cleanup_vars, build_vars, hash_vars,
                    backend_vars, race_vars>>

\* run_chores up to the loop: the graph is sorted, `sorted` is what
\* topo_sort gave
ChoresSorted ==
    /\ chores.state = "not called"
    /\ \E sorted \in topo_sort(chore_graph) :
          chores' = IF sorted.kind = "raised"
                    THEN [chores EXCEPT !.state = "raised"]
                    ELSE [chores EXCEPT !.state = "loop",
                                        !.order = sorted.val, !.at = 1]
    /\ UNCHANGED <<chore_graph, conduct>>
    /\ UNCHANGED outside_chores

\* the chore the loop stands at
Step == chores.order[chores.at]

InLoop == chores.state = "loop" /\ chores.at <= Len(chores.order)

\* `if step in to_skip: continue`
ChoreSkipped ==
    /\ InLoop
    /\ Step \in chores.to_skip
    /\ chores' = [chores EXCEPT !.at = @ + 1]
    /\ UNCHANGED <<chore_graph, conduct>>
    /\ UNCHANGED outside_chores

\* the chore is called: its result, or None and its descendants in to_skip
\* when it raises ChoreSkippedException, goes into results; another
\* exception leaves run_chores
ChoreCalled ==
    /\ InLoop
    /\ Step \notin chores.to_skip
    /\ chores' =
         IF conduct[Step] = "crashes"
         THEN [chores EXCEPT !.state = "raised", !.ran = Append(@, Step)]
         ELSE [chores EXCEPT
                 !.at = @ + 1,
                 !.ran = Append(@, Step),
                 !.to_skip = IF conduct[Step] = "gives up"
                             THEN @ \cup {Step}
                                    \cup find_children(chore_graph)[Step]
                             ELSE @,
                 !.results = (Step :> format_output(
                                 IF conduct[Step] = "gives up" THEN None
                                 ELSE "done")) @@ @]
    /\ UNCHANGED <<chore_graph, conduct>>
    /\ UNCHANGED outside_chores

\* the loop is over: results is returned
ChoresReturned ==
    /\ chores.state = "loop"
    /\ chores.at > Len(chores.order)
    /\ chores' = [chores EXCEPT !.state = "returned"]
    /\ UNCHANGED <<chore_graph, conduct>>
    /\ UNCHANGED outside_chores

NextChores ==
    \/ ChoresSorted
    \/ ChoreSkipped
    \/ ChoreCalled
    \/ ChoresReturned

SpecChores == InitChores /\ [][NextChores]_vars

\* ------------------------------------------------------------- properties
Persisted == Exists(store, PipeId)

pipe == store[PipeId]

ResourceIdIn(db, t) ==
    IF Exists(db, t) THEN Get(db[t], "resource_id", "none") ELSE "none"

ResourceId(t) == ResourceIdIn(store, t)

LayerOf(t) == CHOOSE i \in 1..Len(groups) : t \in groups[i]

Scheduled == UnionAll(groups)

\* the tasks whose name is listed in the `depends` of task i
Preds(ts, i) == {j \in 1..Len(ts) : ts[j].name \in ts[i].depends}

RECURSIVE Ancestors(_, _, _)
Ancestors(ts, S, n) ==
    IF n = 0 THEN S
    ELSE Ancestors(ts, S \cup UNION {Preds(ts, i) : i \in S}, n - 1)

Cyclic(ts) == \E i \in 1..Len(ts) : i \in Ancestors(ts, Preds(ts, i), Len(ts))

Dotted(ts) == \E i \in 1..Len(ts) : Len(ts[i].name) > 1

Unknown(ts) ==
    \E i \in 1..Len(ts) : \E d \in ts[i].depends :
        \A j \in 1..Len(ts) : ts[j].name # d

\* a task list whose graph cannot be built or sorted
BadTaskList(ts) == Dotted(ts) \/ Unknown(ts) \/ Cyclic(ts)

ListsPartitionJobs(r) ==
    /\ Elems(r.executed) \cup Elems(r.executing) \cup Elems(r.waiting)
         = Elems(r.jobs)
    /\ Elems(r.executed) \cap Elems(r.executing) = {}
    /\ Elems(r.executing) \cap Elems(r.waiting) = {}
    /\ Elems(r.executed) \cap Elems(r.waiting) = {}

C2_TopologicalSafety ==
    Persisted =>
        \A u \in Tasks : \A v \in create_graph(tasks)[u] :
            v \in Elems(pipe.executing) => u \in Elems(pipe.executed)

C2_Witness ==
    /\ Persisted
    /\ \E u \in Tasks : \E v \in create_graph(tasks)[u] :
          v \in Elems(pipe.executing) /\ v \in submitted

\* C3: a task of a later layer is handed to sched.submit only when wait_for
\* has returned for every task submitted in the layers before it.
C3_LayersSequential ==
    \A t \in submitted : \A s \in submitted :
        LayerOf(s) < LayerOf(t) => s \in awaited

C3_Witness ==
    \E t \in submitted : \E s1 \in submitted : \E s2 \in submitted :
        /\ s1 # s2
        /\ LayerOf(s1) = LayerOf(s2)
        /\ LayerOf(s1) < LayerOf(t)
        /\ final[s1] = SUCCEEDED
        /\ final[s2] = SUCCEEDED

\* C4 as claimed: once the persisted pipeline record has status DONE or
\* TERMINATED, no later write persists a different status.
C4_TerminalExclusive ==
    [][(Persisted /\ pipe.status \in {DONE, TERMINATED})
         => store'[PipeId].status = pipe.status]_vars

\* C5 as claimed: a persisted pipeline record with status DONE or TERMINATED
\* has empty executing and waiting lists.
C5_TerminalListsEmpty ==
    (Persisted /\ pipe.status \in {DONE, TERMINATED})
        => pipe.executing = <<>> /\ pipe.waiting = <<>>

EarlyExitHonoured ==
    \E t \in awaited :
        final[t] = SUCCEEDED /\ Get(store[t], "request_early_exit", FALSE)

\* C5 amended: when the run has ended with persisted status DONE, the
\* executing list is empty, and the waiting list is empty unless the run
\* stopped on an early-exit request; a TERMINATED record, or a DONE record
\* written while the run goes on, may list tasks in executing and waiting.
C5_DoneListsEmptyAtEnd ==
    (pc = "done" /\ pipe.status = DONE)
        => /\ pipe.executing = <<>>
           /\ ~EarlyExitHonoured => pipe.waiting = <<>>

C5_Witness ==
    /\ pc = "done"
    /\ pipe.status = DONE
    /\ Len(pipe.executed) = NumTasks
    /\ ~EarlyExitHonoured
    /\ Len(groups) > 1

\* C6 as claimed: once the final status of a completed task is not
\* SUCCEEDED, the persisted pipeline status is TERMINATED and stays so to the
\* end of the run, the failed task stays in executing, and every task of a
\* later layer stays in waiting and is never submitted.
C6_FailureTerminates ==
    \A t \in Tasks :
        final[t] \in {FAILED, MISSING} =>
            /\ pipe.status = TERMINATED
            /\ \E f \in Tasks :
                  /\ final[f] \in {FAILED, MISSING}
                  /\ pipe.error_message \in {Message("handler", f),
                                             Message("default", f)}
            /\ t \in Elems(pipe.executing)
            /\ \A s \in Scheduled :
                  LayerOf(s) > LayerOf(t) =>
                      s \in Elems(pipe.waiting) /\ s \notin submitted

Position(t) ==
    CHOOSE i \in 1..Len(Flatten(task_list)) : Flatten(task_list)[i] = t

\* C7: when the submission of a task or of its hash probe raises SubmitError,
\* the persisted pipeline record has status TERMINATED and the error text as
\* error_message, the last event is the termination event, no task after the
\* failing one was submitted or probed, and the run takes no further step.
C7_SubmitErrorTerminates ==
    (pc = "raised" /\ ~BadTaskList(tasks)) =>
        LET t == task_group[ti]
        IN  /\ pipe.status = TERMINATED
            /\ pipe.error_message = Message("submit", t)
            /\ events # <<>>
            /\ events[Len(events)] = Event("Pipeline terminated", 0)
            /\ \A s \in submitted \cup probed : Position(s) <= Position(t)
            /\ t \in submitted \cup probed
            /\ ~ENABLED Next

C7_Witness ==
    /\ pc = "raised"
    /\ ~BadTaskList(tasks)
    /\ running # <<>>
    /\ task_group[ti] \in submitted
    /\ pipe.waiting # <<>>

ExpectedErrorKind(ts) ==
    IF Dotted(ts) THEN "dot" ELSE IF Unknown(ts) THEN "dependency" ELSE "cycle"

\* C8: for a task list with a dotted name, an unknown dependency or a cycle,
\* the run persists only a pipeline record with status TERMINATED and the
\* error as error_message, yields one termination event, stores no task
\* record and never calls sched.submit.
C8_DagErrorTerminates ==
    BadTaskList(tasks) =>
        /\ pc \in {"start", "raised"}
        /\ submitted = {}
        /\ probed = {}
        /\ DOMAIN store \subseteq {PipeId}
        /\ pc = "raised" =>
              /\ Persisted
              /\ pipe.status = TERMINATED
              /\ pipe.error_message.kind = ExpectedErrorKind(tasks)
              /\ events = <<Event("Pipeline terminated", 0)>>

C8_Witness ==
    /\ pc = "raised"
    /\ Cyclic(tasks)
    /\ ~Dotted(tasks)
    /\ ~Unknown(tasks)
    /\ pipe.error_message.kind = "cycle"

\* C9: when the cache value under the task's input fingerprint equals the
\* fingerprint of its outputs, the task record gets resource_id "Cached", the
\* task moves from executing to executed and sched.submit is never called
\* for it; otherwise (other value, or no entry) the task is submitted.
C9_CachedIffFingerprintsMatch ==
    /\ [][(pc = "hash" /\ pc' \notin {"hash", "raised"}) =>
            LET t == task_group[ti]
            IN  IF out_hash' = cache[in_hash']
                THEN /\ ResourceIdIn(store', t) = CACHED
                     /\ t \in Elems(store'[PipeId].executed)
                     /\ t \notin Elems(store'[PipeId].executing)
                     /\ t \notin submitted'
                     /\ pc' = "resolve"
                     /\ ti' = ti + 1
                ELSE /\ ResourceIdIn(store', t) = "none"
                     /\ t \in Elems(store'[PipeId].executing)
                     /\ pc' = "submit"]_vars
    /\ [][\A t \in submitted' \ submitted :
            pc = "submit" /\ t = task_group[ti] /\ ResourceId(t) # CACHED]_vars
    /\ [][(pc = "submit" /\ pc' # "submit") => task_group[ti] \in submitted']_vars
    /\ [](\A t \in Tasks : ResourceId(t) = CACHED => t \notin submitted)

C9_Witness ==
    \E t \in Tasks : \E s \in Tasks :
        /\ ResourceId(t) = CACHED
        /\ fpOf[s] # NoHash
        /\ s \in submitted
        /\ cache[fpOf[s]] # NoHash
        /\ pc = "done"

\* C10 as claimed: right after a task is recorded as Cached, the cache entry
\* it matched lies under the input fingerprint computed for this task, was
\* written by the completion of a task with that same input fingerprint and
\* holds the output fingerprint just computed.
C10_CacheSoundness ==
    (pc = "resolve" /\ ti > 1 /\ ResourceId(task_group[ti - 1]) = CACHED) =>
        LET t == task_group[ti - 1]
        IN  /\ in_hash = fpOf[t]
            /\ cache[fpOf[t]] = out_hash
            /\ cacheWriter[fpOf[t]] = fpOf[t]

\* C11 as claimed: the completion of a task with declared outputs writes the
\* cache entry under that task's own input fingerprint, so every entry lies
\* under the input fingerprint of the task that wrote it.
C11_CacheWriteKey ==
    \A k \in Fps : cacheWriter[k] # NoHash => cacheWriter[k] = k

\* C12: the cache changes only in the step that follows the completion of a
\* task with declared outputs whose final status is SUCCEEDED and which the
\* persisted pipeline record already lists in executed; a task whose final
\* status is FAILED or MISSING never leads to that step.
C12_CacheWriteAfterSuccess ==
    /\ [][cache' # cache =>
            /\ pc = "cache"
            /\ final[cur] = SUCCEEDED
            /\ tasks[cur].outputs
            /\ cur \in awaited
            /\ cur \in Elems(pipe.executed)
            /\ cur \notin Elems(pipe.executing)]_vars
    /\ [](pc = "cache" =>
            final[cur] = SUCCEEDED /\ cur \in Elems(pipe.executed))

C12_Witness ==
    /\ \E k \in Fps : cache[k] # NoHash
    /\ \E t \in Tasks : final[t] \in {FAILED, MISSING} /\ tasks[t].outputs
    /\ pc = "done"

TaskCompletionTime(t) == Get(store[t], "completion_time", FALSE)

\* C13 as claimed: every task listed in the persisted executed list has
\* completion_time set in its own record, whether it ran or was recorded
\* as Cached.
C13_ExecutedHasCompletionTime ==
    Persisted => \A t \in Elems(pipe.executed) : TaskCompletionTime(t)

\* C14 as claimed: once a task that succeeded had request_early_exit in its
\* record, the persisted pipeline status is DONE only when every running
\* task of the layer has completed, no task of a later layer is submitted
\* and the tasks of the later layers stay in waiting.
C14_EarlyExitAfterDraining ==
    EarlyExitHonoured =>
        /\ pipe.status = DONE => Elems(running) \subseteq awaited
        /\ \A s \in Scheduled :
              LayerOf(s) > gi =>
                  s \notin submitted /\ s \in Elems(pipe.waiting)

\* C15: for every task handed to sched.submit, the task record in the store
\* holds the args and inputs the task was submitted with, and these are the
\* declared args and inputs with every reference replaced by the value read
\* from the store.
C15_ResolvedBeforeSubmit ==
    \A t \in submitted :
        /\ store[t].args = sent[t].args
        /\ store[t].inputs = sent[t].inputs
        /\ sent[t] = Rewritten(store, from_dict(tasks[t]))
        /\ \A a \in sent[t].args \cup sent[t].inputs :
              a.form \in {"value", "text"} /\ a.body # None

C15_Witness ==
    \E t \in submitted :
        /\ \E a \in tasks[t].args : a.form = "embedded"
        /\ final[t] = SUCCEEDED
        /\ pc = "done"

\* the tasks from which the graph of create_graph leads to a task of S
RECURSIVE Upstream(_, _)
Upstream(S, n) ==
    IF n = 0 THEN S
    ELSE Upstream(S \cup UNION {rev_graph(create_graph(tasks))[i] : i \in S},
                  n - 1)

GraphAncestors(t) == Upstream(rev_graph(create_graph(tasks))[t], NumTasks)

\* C16 as claimed: every record read to resolve the args and inputs of a
\* task belongs to an ancestor of that task in the graph, and that ancestor
\* is in the persisted executed list.
C16_ReadsOnlyAncestors ==
    \A r \in reads :
        /\ r[2] \in GraphAncestors(r[1])
        /\ r[2] \in Elems(pipe.executed)

\* ---------------------------------------------- rewriting, bottom-up
\* the position of the `}` that closes the span open at depth `depth` when
\* the scan stands at position i; 0 when the span is never closed
RECURSIVE CloseOf(_, _, _)
CloseOf(s, i, depth) ==
    IF i > Len(s) THEN 0
    ELSE IF s[i] = "{" THEN CloseOf(s, i + 1, depth + 1)
    ELSE IF s[i] = "}"
         THEN IF depth = 1 THEN i ELSE CloseOf(s, i + 1, depth - 1)
    ELSE CloseOf(s, i + 1, depth)

\* an argument the expansion below says nothing about
Other == [kind |-> "other", val |-> <<>>]

Spliced(x, y) == IF IsStr(x) /\ IsStr(y) THEN Str(x.val \o y.val) ELSE Other

\* The text of s after every span `{^...}` was replaced, innermost first, by
\* the text its reference names; characters outside spans are copied. With
\* `keep`, a span whose reference names the very text of the span stays as it
\* was, braces included. A span that is no reference after its inner spans
\* were replaced, or whose reference names no text, gives Other.
RECURSIVE ExpandText(_, _, _)
ExpandText(db, s, keep) ==
    IF s = <<>> THEN Str(<<>>)
    ELSE IF s[1] # "{"
    THEN Spliced(Str(<<s[1]>>), ExpandText(db, Tail(s), keep))
    ELSE LET j == CloseOf(s, 2, 1)
         IN  IF j = 0 THEN Str(s)
             ELSE LET body == SubSeq(s, 2, j - 1)
                      inner == ExpandText(db, body, keep)
                      value == IF IsStr(inner) /\ is_reference_str(inner.val)
                               THEN lookup(db, inner.val)
                               ELSE Other
                      piece == IF ~IsStr(value) THEN Other
                               ELSE IF keep /\ value.val = body
                               THEN Str(<<"{">> \o body \o <<"}">>)
                               ELSE value
                  IN  Spliced(piece, ExpandText(db, SubSeq(s, j + 1, Len(s)), keep))

\* the expanded text, replaced by what it names when it starts with `^`
Expand(db, s, keep) ==
    LET text == ExpandText(db, s, keep)
    IN  IF ~IsStr(text) THEN Other
        ELSE IF is_reference_str(text.val) THEN lookup(db, text.val)
        ELSE text

Nested ==
    <<"{", "^", "{", "^", "b", ".", "a", "}", ".", "b", ".",
      "{", "^", "b", ".", "a", "}", "}">>

NoCaretStart(s) == s = <<>> \/ s[1] # "^"

Opens(s) == {i \in 1..Len(s) : s[i] = "{"}

\* the open braces of s that no `}` closes
Unclosed(s) == {i \in Opens(s) : CloseOf(s, i + 1, 1) = 0}

StartsWith(t, u) == Len(t) >= Len(u) /\ SubSeq(t, 1, Len(u)) = u

EndsWith(t, u) == Len(t) >= Len(u) /\ SubSeq(t, Len(t) - Len(u) + 1, Len(t)) = u

\* s starts with text that is copied, so the result is no whole reference
LiteralStart(s) == s # <<>> /\ (s[1] \notin {"^", "{"} \/ 1 \in Unclosed(s))

\* an argument without `{` that does not start with `^` comes back as it is,
\* every `}` in it included
NoOpenUnchanged ==
    Opens(argument) = {} /\ NoCaretStart(argument) =>
        Equal(rewritten, Str(argument))

\* the first `{` that is never closed comes back with all that follows it
UnclosedKept ==
    Unclosed(argument) # {} /\ LiteralStart(argument) /\ IsStr(rewritten) =>
        EndsWith(rewritten.val,
                 SubSeq(argument, Min(Unclosed(argument)), Len(argument)))

\* the first span of the argument, when its contents do not start with `^`,
\* comes back behind the text before it with its opening brace, and as it
\* was when it holds no `^` at all; keep_all asks that of every such span
SpanKept(keep_all) ==
    LET i == Min(Opens(argument))
        j == CloseOf(argument, i + 1, 1)
        pre == SubSeq(argument, 1, i - 1)
        body == SubSeq(argument, i + 1, j - 1)
    IN  (/\ Opens(argument) # {}
         /\ j # 0
         /\ NoCaretStart(pre)
         /\ ~is_reference_str(body)
         /\ IsStr(rewritten)
         /\ keep_all \/ \A k \in 1..Len(body) : body[k] # "^") =>
            /\ StartsWith(rewritten.val, pre \o <<"{">>)
            /\ (\A k \in 1..Len(body) : body[k] # "^") =>
                   StartsWith(rewritten.val, pre \o <<"{">> \o body \o <<"}">>)

\* C18: rewrite_references copies the text that is no reference: an argument
\* without braces that does not start with `^` is returned unchanged, a `}`
\* that closes nothing is kept, a `{` that is never closed is kept with all
\* that follows it, and a span `{...}` whose contents do not start with `^`
\* keeps its braces.
C18_LiteralCopy ==
    rewritten.kind # "not called" =>
        NoOpenUnchanged /\ UnclosedKept /\ SpanKept(TRUE)

\* ---------------------------------------------- rewriting, a second time
SyntaxChars == {"^", "{", "}"}

\* no text held in the value reads as a reference or a span
RECURSIVE PlainValue(_)
PlainValue(v) ==
    IF v.kind = "dict"
    THEN \A k \in DOMAIN v.val : PlainValue(v.val[k])
    ELSE \A i \in 1..Len(v.val) : v.val[i] \notin SyntaxChars

PlainStore(db) == \A task \in DOMAIN db : PlainValue(Dict(db[task]))

\* C19 as stated: whatever the argument and the records, rewrite_references
\* applied to the result of rewrite_references gives that result again.
C19_Idempotent == again.kind # "not called" => Equal(again, rewritten)

\* C19 amended: when the first call returns a str and no text in the records
\* holds `^`, `{` or `}`, the second call returns the same str.
C19_IdempotentOnPlainText ==
    again.kind # "not called" /\ IsStr(rewritten) /\ PlainStore(records) =>
        Equal(again, rewritten)

\* the nested argument was rewritten to the text of a.b.a, and again to it
C19_Witness ==
    /\ argument = Nested
    /\ PlainStore(records)
    /\ Equal(rewritten, Str(<<"a", "b">>))
    /\ Equal(again, rewritten)

\* ------------------------------------------------ rewriting, absent keys
\* walking the path through the dicts of the record meets a key that is absent
RECURSIVE Misses(_, _)
Misses(path, results) ==
    /\ path # <<>>
    /\ results.kind = "dict"
    /\ \/ Head(path) \notin DOMAIN results.val
       \/ Misses(Tail(path), results.val[Head(path)])

\* r is a reference `^task.path` to a record the store holds, and the path
\* names a key that is absent
MissingKey(db, r) ==
    /\ is_reference_str(r)
    /\ \A i \in 1..Len(r) : r[i] \notin {"{", "}"}
    /\ LET parts == parse_reference(r)
       IN  /\ Head(parts) \in DOMAIN db
           /\ Misses(Tail(parts), Dict(db[Head(parts)]))

\* the whole argument is such a reference: the call returns None
WholeMissingGivesNone ==
    MissingKey(records, argument) => Equal(rewritten, NoneValue)

\* the only span of the argument is such a reference: the call does not raise
EmbeddedMissingRaisesNothing ==
    \A i, j \in 1..Len(argument) :
        (/\ i < j
         /\ Opens(argument) = {i}
         /\ {k \in 1..Len(argument) : argument[k] = "}"} = {j}
         /\ NoCaretStart(argument)
         /\ MissingKey(records, SubSeq(argument, i + 1, j - 1))) =>
            rewritten.kind # "raised"

\* C20: a reference whose path names a key that is absent from the record of
\* the referenced task resolves to None and raises no error, as the whole
\* argument and inside braces alike.
C20_MissingKeyGivesNone ==
    rewritten.kind # "not called" =>
        WholeMissingGivesNone /\ EmbeddedMissingRaisesNothing

\* ------------------------------------------------------- sorted graphs
\* the nodes with an edge to n
Into(froms, n) == {src \in DOMAIN froms : n \in froms[src]}

\* the nodes reached from S by one edge
Below(froms, S) == UNION {Edges(froms, n) : n \in S}

\* the nodes reached from S by 1..k edges
RECURSIVE Reach(_, _, _)
Reach(froms, S, k) ==
    IF k = 0 THEN {}
    ELSE Below(froms, S) \cup Reach(froms, Below(froms, S), k - 1)

Acyclic(froms) ==
    \A n \in Nodes(froms) : n \notin Reach(froms, {n}, Cardinality(Nodes(froms)))

\* seq holds every element of S exactly once
Once(seq, S) == Len(seq) = Cardinality(S) /\ Elems(seq) = S

Index(seq, n) == CHOOSE i \in 1..Len(seq) : seq[i] = n

\* the nodes of the layers before layer i
Earlier(ls, i) == UNION {ls[j] : j \in 1..(i - 1)}

\* every node in one layer only, after every node with an edge to it, and
\* each layer all the nodes not yet placed whose predecessors are placed
Layered(froms, ls) ==
    /\ UNION {ls[i] : i \in 1..Len(ls)} = Nodes(froms)
    /\ \A i, j \in 1..Len(ls) : i # j => ls[i] \cap ls[j] = {}
    /\ \A i \in 1..Len(ls) :
          ls[i] = {n \in Nodes(froms) \ Earlier(ls, i) :
                      Into(froms, n) \subseteq Earlier(ls, i)}
    /\ \A i \in 1..Len(ls) : \A n \in ls[i] : \A p \in Into(froms, n) :
          \E j \in 1..(i - 1) : p \in ls[j]

\* C21: for an acyclic graph, nodes without edges included, topo_sort and
\* topo_sort_parallel return; the list topo_sort returns and the layers of
\* topo_sort_parallel hold every node exactly once, every node behind all
\* the nodes with an edge to it; layer i is the set of the nodes not in an
\* earlier layer all of whose predecessors are in earlier layers, so a node
\* lies in a strictly later layer than each of its predecessors.
C21_TopologicalOrder ==
    Acyclic(graph) =>
        /\ kahn.state # "raised"
        /\ kahn.state = "returned" =>
              /\ Once(kahn.sort, Nodes(graph))
              /\ \A n \in Nodes(graph) : \A p \in Into(graph, n) :
                    Index(kahn.sort, p) < Index(kahn.sort, n)
        /\ parallel.kind # "raised"
        /\ parallel.kind = "returned" => Layered(graph, parallel.val)

\* both sorts returned for a graph with an edge 1 -> 2 and a node 3 without
\* edges, the parallel one with two layers
C21_Witness ==
    /\ graph = (1 :> {2}) @@ (2 :> {}) @@ (3 :> {})
    /\ kahn.state = "returned"
    /\ parallel.kind = "returned"
    /\ parallel.val = <<{1, 3}, {2}>>

\* C22: topo_sort_parallel raises CycleError exactly when the graph holds a
\* cycle, a self-loop included, and returns otherwise; for the empty task
\* list create_graph raises nothing and the sort of its graph returns the
\* empty list.
C22_CycleErrorIffCycle ==
    /\ parallel.kind # "not called" =>
          /\ parallel.kind = "raised" <=> ~Acyclic(graph)
          /\ parallel.kind = "returned" <=> Acyclic(graph)
    /\ create_graph_error(<<>>) = NoError
    /\ graph = create_graph(<<>>) /\ parallel.kind # "not called" =>
          parallel = [kind |-> "returned", val |-> <<>>]

\* topo_sort_parallel raised for a graph whose only edge is a self-loop
C22_Witness ==
    /\ graph = (1 :> {1}) @@ (2 :> {})
    /\ parallel.kind = "raised"

\* ------------------------------------------------- rejected task lists
\* two tasks of the list carry the same name
SameName(ts) == \E i, j \in 1..Len(ts) : i < j /\ ts[i].name = ts[j].name

\* a reference of a task, whole or in braces, names no task of the list
StrayReference(ts, forms) ==
    \E i \in 1..Len(ts) : \E a \in ts[i].args \cup ts[i].inputs :
        a.form \in forms /\ ~HasName(ts, a.body)

Rejectable(ts, forms) ==
    Dotted(ts) \/ SameName(ts) \/ Unknown(ts) \/ StrayReference(ts, forms)

\* the request was turned down: no task record, no submission, and the
\* frame that ends the exchange is an ERROR frame
TurnedDown ==
    /\ pc \in {"start", "raised"}
    /\ DOMAIN store \subseteq {PipeId}
    /\ submitted = {}
    /\ probed = {}
    /\ handler = "returned" => frames[Len(frames)].status = "ERROR"

\* C23: a START request whose task list has a dotted name, two tasks of the
\* same name, or a `depends` entry or a reference (whole or in braces) that
\* names no task of the list is turned down with an error before any task
\* record is stored and before any task is submitted.
C23_BadNamesRejected == Rejectable(tasks, Forms) => TurnedDown

\* the same for the references that are the whole value
C23_WholeReferencesRejected == Rejectable(tasks, {"whole"}) => TurnedDown

\* ------------------------------------------------------ progress events
\* how often the event e was yielded
Count(e) == Cardinality({i \in 1..Len(events) : events[i] = e})

\* the events that tell the end of the pipeline, not the step of a task
Terminal(e) == e.task = 0

\* the events of the tasks follow the layers
LayerByLayer ==
    \A i, j \in 1..Len(events) :
        (i < j /\ ~Terminal(events[i]) /\ ~Terminal(events[j]))
            => LayerOf(events[i].task) <= LayerOf(events[j].task)

\* one `Submitting` for every call of sched.submit and one `Done running`
\* for every wait_for that returned
OnePerStep ==
    /\ \A t \in Tasks :
          Count(Event("Submitting", t))
              = IF t \in submitted THEN 1 ELSE 0
    /\ \A t \in Tasks :
          Count(Event("Done running", t)) = IF t \in awaited THEN 1 ELSE 0

\* task 1, then task 2, then task 3, none with outputs
Linear ==
    /\ tasks[1].depends = {}
    /\ \A i \in 2..NumTasks : tasks[i].depends = {TaskName(i - 1)}
    /\ \A i \in Tasks : ~tasks[i].outputs /\ ~HasDot(tasks[i].name)

LinearEvents ==
    [i \in 1..(2 * NumTasks) |->
        IF i % 2 = 1 THEN Event("Submitting", (i + 1) \div 2)
        ELSE Event("Done running", i \div 2)]

\* events[from..] holds the events of seq in their order
RECURSIVE Holds(_, _)
Holds(from, seq) ==
    IF seq = <<>> THEN TRUE
    ELSE \E i \in from..Len(events) :
            events[i] = Head(seq) /\ Holds(i + 1, Tail(seq))

LinearRun ==
    (/\ Linear
     /\ pc = "done"
     /\ \A t \in Tasks : final[t] = SUCCEEDED
     /\ ~EarlyExitHonoured)
        => /\ Holds(1, LinearEvents)
           /\ pipe.executed = <<1, 2, 3>>
           /\ pipe.status = DONE

\* C24: run yields one `Submitting` event for every submission, one
\* `Done running` event for every completion and one event for every
\* transition of the pipeline to DONE or TERMINATED, so that a run that has
\* ended with a DONE or TERMINATED record has yielded one; the events of a
\* layer come before those of the next; the linear pipeline that succeeds
\* yields its six events in order and ends DONE with every task executed.
C24_ProgressEvents ==
    /\ OnePerStep
    /\ LayerByLayer
    /\ LinearRun
    /\ (RunOver /\ Persisted /\ pipe.status \in {DONE, TERMINATED})
          => \E i \in 1..Len(events) : Terminal(events[i])

\* C24 amended: one `Submitting` event for every submission, one
\* `Done running` event for every completion, the events of a layer before
\* those of the next, the linear pipeline as claimed; a run that has ended
\* has yielded one termination event when the pipeline is TERMINATED and
\* none when it is DONE.
C24_NoEventForDone ==
    /\ OnePerStep
    /\ LayerByLayer
    /\ LinearRun
    /\ (RunOver /\ Persisted)
          => (pipe.status = TERMINATED
                <=> \E i \in 1..Len(events) : Terminal(events[i]))
    /\ Cardinality({i \in 1..Len(events) : Terminal(events[i])}) <= 1

C24_Witness ==
    /\ Linear
    /\ pc = "done"
    /\ \A t \in Tasks : final[t] = SUCCEEDED
    /\ ~EarlyExitHonoured
    /\ events = LinearEvents
    /\ pipe.status = DONE

\* ---------------------------------------------- the client that leaves
\* handle_request is over
HandlerOver == handler \in {"returned", "raised"}

\* the record of a run that is over, as run leaves it
RunOutcome ==
    /\ pc = "done" => Persisted /\ pipe.status \in {DONE, TERMINATED}
    /\ pc = "raised" => Persisted /\ pipe.status = TERMINATED
    /\ pc = "done" =>
          \/ Scheduled \subseteq awaited
          \/ pipe.status = TERMINATED
          \/ EarlyExitHonoured

\* C25: once the pipeline id was sent, handle_request leaves the loop over
\* run only when run is over and every event was taken, whether the client
\* is connected or not; until then it can take an event or let run go on;
\* and the run that is over has left the record it leaves for a connected
\* client: DONE or TERMINATED after a return, with every task awaited unless
\* the pipeline stopped, TERMINATED after an error it persisted.
C25_ClosedClientRunsOn ==
    /\ [][(handler = "run" /\ handler' # "run")
             => (RunOver /\ relayed = Len(events) /\ HandlerOver')]_vars
    /\ [](handler = "run" /\ ~(RunOver /\ relayed = Len(events))
             => ENABLED (Relay \/ Drive))
    /\ []((HandlerOver /\ pc # "start") => (RunOver /\ RunOutcome))

C25_Witness ==
    /\ handler = "returned"
    /\ connection = "closed"
    /\ pc = "done"
    /\ Len(frames) = 2
    /\ awaited = Tasks
    /\ pipe.status = DONE
    /\ pipe.executed = <<1, 2, 3>>

\* ------------------------------------------------- wait_for and a kill
\* the step is a turn of the loop of wait_for
Polled == wait'.polls = wait.polls + 1

\* the poll that follows the deletion ends wait_for with a status that is
\* neither RUNNING nor SUCCEEDED
KilledFails ==
    (deleted /\ Polled)
        => /\ wait'.state = "returned"
           /\ wait'.status \notin {RUNNING, SUCCEEDED}

\* C26: when the workload of a running task, of any resource type, was
\* deleted by an external kill, the next status poll of wait_for reports a
\* status that is neither RUNNING nor SUCCEEDED and wait_for returns (so
\* that run sets the pipeline TERMINATED).
C26_KilledTaskFails == [][KilledFails]_vars

\* the same for the resource types whose handler reads the resource itself
C26_KilledPodOrJobFails ==
    [][(resource_type \in {"Pod", "Job"}) => KilledFails]_vars

\* --------------------------------------- the status of a multi-pod job
\* the status the pods of a job add up to
Aggregate(listed) ==
    IF \E i \in DOMAIN listed : listed[i] \notin TERMINAL_PHASES THEN RUNNING
    ELSE IF \E i \in DOMAIN listed : listed[i] = "Succeeded" THEN SUCCEEDED
    ELSE FAILED

\* C30: for a TFJob, PyTorchJob, MPIJob or ElasticJob and every list of pod
\* phases, the status a poll gives is RUNNING when a pod is in a phase that
\* is not terminal, SUCCEEDED when every phase is terminal and a pod
\* succeeded, and FAILED otherwise.
C30_MultiPodStatus ==
    [][(Polled /\ resource_type \in MultiPodTypes)
          => (wait'.state # "raised" /\ wait'.status = Aggregate(pods))]_vars

\* the same for the lists whose first pod tells the status of all, for the
\* jobs that are not an MPIJob
C30_FirstPodDecides ==
    [][(/\ Polled
        /\ resource_type \in MultiPodTypes \ {"MPIJob"}
        /\ pods # <<>>
        /\ from_pod_status(pods[1]) = Aggregate(pods))
          => (wait'.state # "raised" /\ wait'.status = Aggregate(pods))]_vars

\* --------------------------------------------- errors inside a run
\* the record of the pipeline is DONE or TERMINATED
TerminalRecord == Persisted /\ pipe.status \in {DONE, TERMINATED}

\* the last frame the connected client got ends the exchange
FinalFrame ==
    /\ frames # <<>>
    /\ frames[Len(frames)].status \in {"END", "ERROR"}

\* C27: when a run has ended, by a return or by an error raised inside it,
\* the pipeline record is persisted with status DONE or TERMINATED, never
\* left BUILDING or RUNNING, and once handle_request is over a client that
\* is still connected has got a final END or ERROR frame.
C27_ErrorsBecomeStatus ==
    /\ RunOver => TerminalRecord
    /\ (HandlerOver /\ connection = "open") => FinalFrame

\* the same for the errors run catches: those of the graph and SubmitError
C27_CaughtErrorsBecomeStatus ==
    /\ (RunOver /\ pc # "crashed") => TerminalRecord
    /\ (HandlerOver /\ connection = "open") => FinalFrame

\* ------------------------------------------- a cache write that fails
\* C28: when the write of the cache entry of a succeeded task is over,
\* failed or not, run goes on with the completions of the layer, and the
\* run that has ended has persisted the status DONE or TERMINATED.
C28_CacheFailureIsAdvisory ==
    /\ [][(pc = "cache" /\ pc' # "cache") => pc' = "await"]_vars
    /\ [](RunOver => TerminalRecord)

\* ------------------------------------------------------ the job store
\* the step is a call of the store
CallOf(op) == call'.seq = call.seq + 1 /\ call'.op = op

\* the value has no label to be stored under
Unlabelled(value) == value.kind = "None" \/ "label" \notin DOMAIN value.val

SetContract ==
    CallOf("set") =>
        IF Unlabelled(call'.arg)
        THEN call'.result.kind = "raised" /\ jobs_db' = jobs_db
        ELSE /\ call'.result.kind = "returned"
             /\ Exists(jobs_db', call'.arg.val.label)
             /\ jobs_db'[call'.arg.val.label] = call'.arg.val
             /\ \A l \in StoreLabels \ {call'.arg.val.label} :
                   /\ Exists(jobs_db', l) <=> Exists(jobs_db, l)
                   /\ Exists(jobs_db, l) => jobs_db'[l] = jobs_db[l]

GetContract ==
    (CallOf("get") /\ call'.arg.val \in DOMAIN latest)
        => /\ call'.result.kind = "returned"
           /\ call'.result.val = latest[call'.arg.val]

ExistsContract ==
    CallOf("exists") => call'.result.val = (call'.arg.val \in DOMAIN latest)

RemoveContract ==
    CallOf("remove") =>
        IF call'.arg.val \in DOMAIN latest
        THEN /\ call'.result.val = TRUE
             /\ ~Exists(jobs_db', call'.arg.val)
             /\ \A l \in StoreLabels \ {call'.arg.val} :
                   /\ Exists(jobs_db', l) <=> Exists(jobs_db, l)
                   /\ Exists(jobs_db, l) => jobs_db'[l] = jobs_db[l]
        ELSE call'.result.val = FALSE /\ jobs_db' = jobs_db

\* C29: set of None or of a record without `label` raises and leaves the
\* store as it was; after set of a record, get of its label returns that
\* record and exists is true, and a later set of the same label replaces
\* the record; remove returns true and deletes the record of a label that
\* is present, and returns false and changes nothing for a label that is not.
C29_StoreContract ==
    [][SetContract /\ GetContract /\ ExistsContract /\ RemoveContract]_vars

\* the third call is a get, and it returns the record that was set last
C29_Witness ==
    /\ call.op = "get"
    /\ call.seq = 3
    /\ call.result.kind = "returned"
    /\ call.result.val.status = DONE
    /\ latest[call.arg.val].status = DONE

\* ---- C32: the first record of a pipeline and the RUNNING write
\* the step is the first write of the pipeline record of a valid pipeline
FirstWrite == ~Persisted /\ Exists(store', PipeId) /\ dag_error(tasks) = NoError

\* the step gives the pipeline record the status RUNNING
BecomesRunning ==
    /\ Persisted
    /\ store[PipeId].status # RUNNING
    /\ store'[PipeId].status = RUNNING

EveryTaskStored(db) == \A t \in Tasks : Exists(db, t)

RunEnded == pc \in {"done", "raised"}

RecordedCached(t) == Exists(store, t) /\ Get(store[t], "resource_id", None) = CACHED

\* C36: at the end of every run, every label in the executed list of the
\* pipeline record belongs to a task whose final status was SUCCEEDED or that
\* was recorded as Cached; no task whose final status was FAILED or MISSING is
\* in executed
C36_ExecutedSucceeded ==
    (RunEnded /\ Persisted) =>
        \A t \in Elems(pipe.executed) :
            /\ final[t] = SUCCEEDED \/ RecordedCached(t)
            /\ final[t] \notin {FAILED, MISSING}

\* the same without a request of an early exit that was honoured
C36_ExecutedSucceededWithoutEarlyExit ==
    (RunEnded /\ Persisted /\ ~EarlyExitHonoured) =>
        \A t \in Elems(pipe.executed) :
            /\ final[t] = SUCCEEDED \/ RecordedCached(t)
            /\ final[t] \notin {FAILED, MISSING}

\* ---- C37: the tasks a run leaves behind
\* the tasks sched.submit returned a resource id for
Launched ==
    {t \in Tasks : Exists(store, t) /\ Get(store[t], "resource_id", None) = "resource"}

\* wait_for has returned for the task and its completion_time is recorded
AwaitedAndTimed(t) ==
    t \in awaited /\ Get(store[t], "completion_time", FALSE)

\* C37: when run ends, by finishing or by raising, every task it submitted
\* has been awaited until it left RUNNING and has completion_time recorded
C37_NoTaskLeftRunning ==
    RunEnded => \A t \in Launched : AwaitedAndTimed(t)

\* when run finishes, every task it submitted has been awaited and has
\* completion_time recorded; when run raises, this holds of the submitted
\* tasks of the layers before the current one, and every other submitted
\* task is listed in executing of the TERMINATED record
C37_NoTaskLeftRunningUnlessRaised ==
    /\ pc = "done" => \A t \in Launched : AwaitedAndTimed(t)
    /\ pc = "raised" =>
          \A t \in Launched :
              \/ AwaitedAndTimed(t)
              \/ /\ LayerOf(t) = gi
                 /\ t \in Elems(pipe.executing)
                 /\ pipe.status = TERMINATED

\* ---- C31: the parent of a task record
\* the records that carry a parent label
TaskRecords == {l \in DOMAIN store : "parent" \in DOMAIN store[l]}

\* C31: in every state reached by running a pipeline and calling cleanup on
\* it, with or without purge_db, the parent label of every task record in
\* the store is the label of a pipeline record in the store
C31_ParentResolves ==
    \A l \in TaskRecords : Exists(store, store[l].parent)

\* the same for a cleanup that leaves the store alone, and for a cleanup of a
\* pipeline that lists none of its tasks in waiting
C31_ParentResolvesNoneWaiting ==
    (cleaned.state = "returned" /\ Exists(my_status, "waiting")
        /\ my_status.waiting = <<>>)
        => \A l \in TaskRecords : Exists(store, store[l].parent)

\* ---- C33: the graph create_graph returns
Returned == made.kind = "graph"

\* dst lists the name of src in `depends`
ListsInDepends(dst, src) ==
    \E d \in task_defs[dst].depends : DependsName(d) = task_defs[src].name

\* a string value of dst starts with `^` and its first segment names src
\* and no external input
RefersTo(dst, src) ==
    \E v \in FieldValues(task_defs[dst]) :
        /\ v.caret
        /\ FirstSegment(v) = task_defs[src].name
        /\ FirstSegment(v) \notin external_inputs

\* something other than a reference to an external input is wrong with the
\* task list: a name with a dot, a name in `depends` that no task carries,
\* or a reference whose first segment names neither a task nor an external
\* input
Unbuildable ==
    \/ \E i \in 1..NumDefs : HasDot(task_defs[i].name)
    \/ \E dst \in 1..NumDefs :
          \/ \E d \in task_defs[dst].depends :
                ~d.caret /\ ~HasName(task_defs, d.segs)
          \/ \E v \in FieldValues(task_defs[dst]) :
                /\ v.caret
                /\ FirstSegment(v) \notin external_inputs
                /\ ~HasName(task_defs, FirstSegment(v))

EdgesAsDeclared ==
    /\ DOMAIN made.val = 1..NumDefs
    /\ \A src \in 1..NumDefs, dst \in 1..NumDefs :
          dst \in made.val[src] <=> (ListsInDepends(dst, src) \/ RefersTo(dst, src))

\* C33: create_graph returns a graph that holds every task index as a node
\* and has an edge src -> dst exactly when dst lists src in `depends` or a
\* string value of dst starts with `^` and its first segment names src; a
\* reference whose first segment is a key of external_inputs adds no edge
\* and raises no error
C33_GraphOfReferences ==
    made # NotMade =>
        /\ Returned => EdgesAsDeclared
        /\ ~Returned => Unbuildable

\* the task lists whose names differ and whose `depends` hold names only
PlainDepends ==
    /\ \A i \in 1..NumDefs, j \in 1..NumDefs :
          task_defs[i].name = task_defs[j].name => i = j
    /\ \A i \in 1..NumDefs : \A d \in task_defs[i].depends : ~d.caret

\* the same for the task lists whose names differ and whose `depends` hold
\* names only
C33_GraphOfReferencesPlainDepends ==
    (made # NotMade /\ PlainDepends) =>
        /\ Returned => EdgesAsDeclared
        /\ ~Returned => Unbuildable

\* ---- C34: the probe of hash_task
\* the pod that was submitted is a copy of the task with the suffix on its
\* name, a short sleep for command and args, and no GPU request and no node
\* selector
ProbeCopied ==
    workload.state # "none" =>
        /\ workload.spec.name = Append(hashed.name, HASH_TRAILING)
        /\ workload.spec.image = hashed.image
        /\ workload.spec.command = "sleep"
        /\ workload.spec.args = <<"300">>
        /\ workload.spec.num_gpus = None
        /\ workload.spec.node_selector = None

\* the pod that was submitted has no mounts
ProbeUnmounted == workload.state # "none" => workload.spec.mounts = None

\* hash_task returns after it saw the probe Running and killed it
ProbeKilled ==
    hashing.state = "returned" =>
        /\ hashing.seen = "Running"
        /\ workload.state = "deleted"
        /\ hashing.result = Digests(workload.spec)

\* C34: hash_task submits a probe that is a copy of the task with `-hash`
\* appended to its name, command and args replaced by a short sleep, and the
\* GPU request, the node selector and the mounts cleared; it returns the
\* digests after it saw the probe Running and killed it, and it leaves every
\* field of the task it was handed as it was
C34_ProbeOfTask ==
    [][/\ ProbeCopied'
       /\ ProbeUnmounted'
       /\ ProbeKilled'
       /\ hashed' = hashed]_vars

\* the same without the mounts
C34_ProbeOfTaskButMounts ==
    [][/\ ProbeCopied'
       /\ ProbeKilled'
       /\ hashed' = hashed]_vars

\* ---- C39: the wait for the probe
\* a turn of the loop of wait_until_running was taken
ProbePollTaken == hashing.state = "waiting" /\ hashing'.polls = hashing.polls + 1

\* C39: the wait on a hash probe ends when the probe has failed or finished
\* without being seen Running, so that run goes on to a terminal status: a
\* turn of the loop that finds the pod in a terminal phase ends the wait
C39_ProbeWaitEnds ==
    [][(ProbePollTaken /\ workload.phase \in TERMINAL_PHASES)
         => hashing'.state # "waiting"]_vars

\* a turn of the loop that finds the pod Running ends the wait, and no other
\* turn does
C39_ProbeWaitEndsWhenRunning ==
    [][ProbePollTaken
         => (hashing'.state # "waiting" <=> workload.phase = "Running")]_vars

\* what a store may add to a record of its own accord: the _id of a
\* document, a column nobody set, the time of the first set
Supplied(k, v) == k = "_id" \/ v = None \/ (k = "submit_time" /\ v = "now")

\* the record a get gave has every field of the record the MemoryStore
\* gave, with its value, and beyond them only what the store supplies
SameRecord(given, expected) ==
    /\ \A k \in DOMAIN expected : k \in DOMAIN given /\ given[k] = expected[k]
    /\ \A k \in DOMAIN given \ DOMAIN expected : Supplied(k, given[k])

\* the call ended in both stores the same way, with the same result
Agrees(a) ==
    /\ a.given.kind = a.expected.kind
    /\ IF a.op = "get" /\ a.given.kind = "returned"
       THEN SameRecord(a.given.val, a.expected.val)
       ELSE a.given.val = a.expected.val

\* C35: after every sequence of set, get, exists and remove, the call made
\* last on a PostgresStore or a MongoStore ends as it does on a MemoryStore
\* given the same calls: get gives the record last set for the label with
\* all its fields and none a later set dropped, exists is false for an
\* absent label, and remove of an absent label returns false.
C35_BackendsLikeMemory == answer.op # "none" => Agrees(answer)

\* the MongoStore does so in every history
C35_MongoLikeMemory ==
    (backend = "mongo" /\ answer.op # "none") => Agrees(answer)

\* the record of the task in the store
Stored == docs[Worker]

\* every field the task has set is in its record with the value set last
Kept(doc) == \A f \in DOMAIN written : f \in DOMAIN doc /\ doc[f] = written[f]

\* C38: what a running task has written into its own record, its outputs
\* and request_early_exit, is in the record from then on: no set of the
\* executor, after submit or at completion, takes it away.
C38_TaskWritesKept == Kept(Stored)

\* the set of the executor at completion takes nothing away, and neither
\* does the one after submit when the task wrote nothing since the
\* executor read
C38_TaskWritesKeptUnlessRead ==
    [][(Kept(Stored) /\ ~Kept(Stored)') =>
          /\ executor_copy.at = "read"
          /\ executor_copy'.at = "waiting"
          /\ ~Kept(executor_copy.val)]_vars

\* the chores run_chores has called, and those of them that gave up
Ran == Elems(chores.ran)

GaveUp == {c \in Ran : conduct[c] = "gives up"}

\* the chores the loop is through with
Visited == {chores.order[i] : i \in 1..(chores.at - 1)}

\* the chores from which c is reached along the edges of the graph
AncestorsOf(c) ==
    {a \in ChoreIds : c \in Reach(chore_graph, {a}, NumChores)}

\* C40: run_chores goes through the chores in an order where each chore
\* comes after all chores it depends on; a chore it has gone through was
\* run exactly when no chore above it in the graph raised
\* ChoreSkippedException, so every descendant of a chore that raised it is
\* skipped, and results has an entry for a chore exactly when it was run.
C40_ChoresSkipBelow ==
    /\ \A i \in 1..Len(chores.order) : \A j \in 1..Len(chores.order) :
           chores.order[j] \in chore_graph[chores.order[i]] => i < j
    /\ \A c \in Visited : c \in Ran <=> AncestorsOf(c) \cap GaveUp = {}
    /\ \A c \in Visited : c \in DOMAIN chores.results <=> c \in Ran
    /\ Ran \subseteq Visited \cup {c \in ChoreIds : conduct[c] = "crashes"}

\* run_chores has returned; a chore gave up, a chore below a chore below it
\* was skipped, and a chore beside them was run after it gave up
C40_Witness ==
    /\ chores.state = "returned"
    /\ Visited = ChoreIds
    /\ \E a, b, c \in ChoreIds :
          /\ a \in GaveUp
          /\ b \in chore_graph[a]
          /\ c \notin Ran
          /\ c \in chore_graph[b]
          /\ c \notin chore_graph[a]
          /\ c \notin DOMAIN chores.results
          /\ chores.results[a] = None

====
